---- MODULE Spec2Model ----
(***************************************************************************)
(* Model of the statistics engine of kellanator (src/app.py): the machine  *)
(* name normalizer, the event flattener process_all_rounds_and_games, the  *)
(* row filter filter_data, the per-column statistics of                    *)
(* calculate_stat_for_column, the result table of calculate_averages, the  *)
(* advantage table of build_player_machine_stats and the pick optimizers   *)
(* optimize_singles_format and optimize_doubles_format.                    *)
(*                                                                         *)
(* Text that the code lower-cases, trims or compares (machine, team and    *)
(* venue names) is a tuple of one-character strings, so that str.lower()   *)
(* and str.strip() are computed character by character.  Opaque text       *)
(* (player keys, player names, team abbreviations) is a plain string.      *)
(***************************************************************************)
EXTENDS Integers, Sequences, FiniteSets, TLC

VARIABLES
    pc,                 \* position of the run: "start", "flattened", "stat", "named", ...
    all_data,           \* the match records handed to process_all_rounds_and_games
    team_name,          \* the primary (selected) team
    twc_team_name,      \* the reference team
    venue_name,         \* the selected venue
    team_roster,        \* roster: team abbreviation -> set of player names
    included_machines_for_venue,
    excluded_machines_for_venue,
    current_limits,     \* score limits: canonical machine name -> ceiling
    machine_mapping,    \* alias table: sequence of <<alias, standard name>>
    machine_name,       \* the raw name handed to standardize_machine_name
    standard_name,      \* what standardize_machine_name returned
    processed_data,     \* the flattened event table (row order kept)
    recent_machines,    \* the second result of process_all_rounds_and_games
    team_abbr_dict,     \* global lookup: full team name -> team abbreviation
    stat,               \* the last call of calculate_stat_for_column and its result
    filtered,           \* the last call of filter_data and its result
    column_config,      \* the column configuration handed to calculate_averages
    result_df,          \* the result table of main: calculate_averages, then sorted
    player_machine_stats,   \* first result of build_player_machine_stats
    machine_advantage_df,   \* second result of build_player_machine_stats
    selection,          \* the last call of optimize_machine_selections and its result
    pair_machine_scores \* the last pair scored by optimize_doubles_format and its score

vars == <<pc, all_data, team_name, twc_team_name, venue_name, team_roster,
          included_machines_for_venue, excluded_machines_for_venue,
          current_limits, machine_mapping, machine_name, standard_name,
          processed_data, recent_machines, team_abbr_dict, stat, filtered,
          column_config, result_df, player_machine_stats, machine_advantage_df,
          selection, pair_machine_scores>>

\* what the statistics and picking steps write, for the steps that leave it alone
statsVars == <<filtered, column_config, result_df>>
pickingVars == <<player_machine_stats, machine_advantage_df, selection, pair_machine_scores>>

-----------------------------------------------------------------------------
(* Bounds of the model.                                                    *)

MaxNameLen == 2     \* longest raw machine name handed to the normalizer
MaxRounds == 2      \* most rounds of one match
MaxGames == 2       \* most games of one round
MaxAliases == 2     \* most entries of the alias table handed to the normalizer

-----------------------------------------------------------------------------
(* Text: str.lower() and str.strip().                                      *)

Whitespace == {" "}

LowerChar(c) ==
    CASE c = "A" -> "a"
      [] c = "M" -> "m"
      [] c = "G" -> "g"
      [] c = "V" -> "v"
      [] c = "W" -> "w"
      [] c = "X" -> "x"
      [] c = "Y" -> "y"
      [] c = "T" -> "t"
      [] c = "S" -> "s"
      [] c = "D" -> "d"
      [] OTHER -> c

Lower(s) == [i \in 1..Len(s) |-> LowerChar(s[i])]

RECURSIVE LStrip(_)
LStrip(s) == IF s # <<>> /\ Head(s) \in Whitespace THEN LStrip(Tail(s)) ELSE s

RECURSIVE RStrip(_)
RStrip(s) ==
    IF s # <<>> /\ s[Len(s)] \in Whitespace
    THEN RStrip(SubSeq(s, 1, Len(s) - 1))
    ELSE s

Strip(s) == RStrip(LStrip(s))

\* All texts of at most n characters over the alphabet cs.
RECURSIVE TextsUpTo(_, _)
TextsUpTo(cs, n) ==
    IF n = 0 THEN {<<>>}
    ELSE LET shorter == TextsUpTo(cs, n - 1)
         IN  shorter \cup {Append(s, c) : s \in shorter, c \in cs}

-----------------------------------------------------------------------------
(* standardize_machine_name.  A dict is a sequence of <<key, value>> pairs *)
(* with distinct keys, in insertion order (the order items() yields).      *)

DictKeys(d) == {d[i][1] : i \in 1..Len(d)}
DictGet(d, k) == d[CHOOSE i \in 1..Len(d) : d[i][1] = k][2]

\* Variant: the second lookup compares the standard names as they are written.
standardize_machine_name_exact_value(mapping, name) ==
    LET machine_lower == Strip(Lower(name))
        same == {i \in 1..Len(mapping) : machine_lower = mapping[i][2]}
    IN  IF machine_lower \in DictKeys(mapping)
        THEN DictGet(mapping, machine_lower)
        ELSE IF same # {}
             THEN mapping[CHOOSE i \in same : \A j \in same : i <= j][2]
             ELSE machine_lower

standardize_machine_name(mapping, name) ==
    LET machine_lower == Strip(Lower(name))
        same == {i \in 1..Len(mapping) : machine_lower = Lower(mapping[i][2])}
    IN  IF machine_lower \in DictKeys(mapping)
        THEN DictGet(mapping, machine_lower)
        ELSE IF same # {}
             THEN mapping[CHOOSE i \in same : \A j \in same : i <= j][2]
             ELSE machine_lower

-----------------------------------------------------------------------------
(* Match records.  A match is [key, venue, home, away, rounds]; the key is *)
(* the text "mnp-<season>-<week>" split at the dashes; a team is           *)
(* [name, lineup], a lineup a sequence of [key, name]; a round is          *)
(* [n, games]; a game is [n, machine, player, score], player and score     *)
(* being functions on the score slots the record holds (a subset of 1..4). *)

Positions == <<1, 2, 3, 4>>

\* int(match['key'].split('-')[1])
SeasonOf(match) == match.key[2]

\* game.get('player_<pos>') and game.get('score_<pos>', 0)
GamePlayer(game, pos) == IF pos \in DOMAIN game.player THEN game.player[pos] ELSE "None"
GameScore(game, pos) == IF pos \in DOMAIN game.score THEN game.score[pos] ELSE 0

InLineup(lineup, player_key) == \E i \in 1..Len(lineup) : lineup[i].key = player_key

LineupName(lineup, player_key) ==
    lineup[CHOOSE i \in 1..Len(lineup) :
              /\ lineup[i].key = player_key
              /\ \A j \in 1..Len(lineup) : lineup[j].key = player_key => i <= j].name

get_player_name(player_key, match) ==
    IF InLineup(match.home.lineup, player_key)
    THEN LineupName(match.home.lineup, player_key)
    ELSE IF InLineup(match.away.lineup, player_key)
         THEN LineupName(match.away.lineup, player_key)
         ELSE player_key

\* line 871: the home team when the key is in the home lineup, else the away team
player_team_of(player_key, match) ==
    IF InLineup(match.home.lineup, player_key) THEN match.home.name ELSE match.away.name

\* Variant: the player is looked up in the rosters of all teams.
is_roster_player_any_team(player_name, team, roster) ==
    \E abbr \in DOMAIN roster : player_name \in roster[abbr]

\* lines 790-803; a roster that is None has no abbreviation, like an empty one
is_roster_player(player_name, team, roster) ==
    /\ team \in DOMAIN team_abbr_dict
    /\ team_abbr_dict[team] # ""
    /\ team_abbr_dict[team] \in DOMAIN roster
    /\ player_name \in roster[team_abbr_dict[team]]

-----------------------------------------------------------------------------
(* process_all_rounds_and_games.                                           *)

Max(S) == CHOOSE x \in S : \A y \in S : y <= x

overall_latest_season(data) == Max({SeasonOf(data[i]) : i \in 1..Len(data)})

selected_team_role(team, match) ==
    IF team = match.home.name THEN "home"
    ELSE IF team = match.away.name THEN "away"
    ELSE "away"

\* Variant: the reference team is given the selected team's role.
twc_role_same(selected_role) == selected_role

\* line 827: the opposite of the selected team's role
twc_role(selected_role) == IF selected_role = "away" THEN "home" ELSE "away"

\* Variant: the pick rounds of the two roles exchanged.
pick_rounds_swapped(role) == IF role = "away" THEN {2, 4} ELSE {1, 3}

\* lines 831-832: away picks in rounds 1 and 3, home in rounds 2 and 4
pick_rounds(role) == IF role = "away" THEN {1, 3} ELSE {2, 4}

\* Variant: a score equal to the limit is dropped too.
slot_kept_strict(machine, score) ==
    /\ score # 0
    /\ ~(machine \in DOMAIN current_limits /\ score >= current_limits[machine])

\* lines 865-869: a slot is skipped when its score is 0 or above the machine's limit
slot_kept(machine, score) ==
    /\ score # 0
    /\ ~(machine \in DOMAIN current_limits /\ score > current_limits[machine])

\* Variant: the pick flags are set only on the events of the picking team's own
\* players.
slot_event_own_team(match, round_number, game, machine, pos, is_team_pick, is_twc_pick, roster) ==
    LET player_key == GamePlayer(game, pos)
        player_name == get_player_name(player_key, match)
        player_team == player_team_of(player_key, match)
    IN  [season |-> SeasonOf(match),
         machine |-> machine,
         player_name |-> player_name,
         score |-> GameScore(game, pos),
         team |-> player_team,
         match |-> match.key,
         round |-> round_number,
         game_number |-> game.n,
         venue |-> match.venue.name,
         picked_by |-> IF round_number \in {1, 3} THEN match.away.name ELSE match.home.name,
         is_pick |-> is_team_pick /\ player_team = team_name,
         is_pick_twc |-> is_twc_pick /\ player_team = twc_team_name,
         is_roster_player |-> is_roster_player(player_name, player_team, roster)]

\* lines 870-887: the event of one score slot
slot_event(match, round_number, game, machine, pos, is_team_pick, is_twc_pick, roster) ==
    LET player_key == GamePlayer(game, pos)
        player_name == get_player_name(player_key, match)
        player_team == player_team_of(player_key, match)
    IN  [season |-> SeasonOf(match),
         machine |-> machine,
         player_name |-> player_name,
         score |-> GameScore(game, pos),
         team |-> player_team,
         match |-> match.key,
         round |-> round_number,
         game_number |-> game.n,
         venue |-> match.venue.name,
         picked_by |-> IF round_number \in {1, 3} THEN match.away.name ELSE match.home.name,
         is_pick |-> is_team_pick,
         is_pick_twc |-> is_twc_pick,
         is_roster_player |-> is_roster_player(player_name, player_team, roster)]

\* lines 862-887: the events of one game, in slot order
game_events(match, round_number, game, machine, is_team_pick, is_twc_pick, roster) ==
    LET Kept(pos) == slot_kept(machine, GameScore(game, pos))
        kept == SelectSeq(Positions, Kept)
    IN  [i \in 1..Len(kept) |->
            slot_event(match, round_number, game, machine, kept[i],
                       is_team_pick, is_twc_pick, roster)]

\* Variant: the venue of the match is not compared.
recent_after_any_venue(recent, match, machine, latest, venue, excluded) ==
    IF SeasonOf(match) = latest /\ machine \notin excluded
    THEN recent \cup {machine}
    ELSE recent

\* lines 850-853
recent_after(recent, match, machine, latest, venue, excluded) ==
    IF SeasonOf(match) = latest /\ match.venue.name = venue
    THEN IF excluded = {} \/ machine \notin excluded
         THEN recent \cup {machine}
         ELSE recent
    ELSE recent

\* Variant: every game of the round counts as the first on its machine.
first_in_round_always(machine, machines_in_round) == TRUE

\* lines 856-857: machine not in machines_in_round
first_in_round(machine, machines_in_round) == machine \notin machines_in_round

\* lines 845-887: one game; acc is [df, recent, machines_in_round]
process_game(acc, match, round_info, game, team, venue, roster, excluded, latest) ==
    LET machine == standardize_machine_name(machine_mapping, Lower(game.machine))
        role == selected_team_role(team, match)
        is_selected_team_pick_round == round_info.n \in pick_rounds(role)
        is_twc_pick_round == round_info.n \in pick_rounds(twc_role(role))
        is_team_pick == is_selected_team_pick_round /\ first_in_round(machine, acc.machines_in_round)
        is_twc_pick == is_twc_pick_round /\ first_in_round(machine, acc.machines_in_round)
    IN  IF machine = <<>>
        THEN acc
        ELSE [df |-> acc.df \o game_events(match, round_info.n, game, machine,
                                            is_team_pick, is_twc_pick, roster),
              recent |-> recent_after(acc.recent, match, machine, latest, venue, excluded),
              machines_in_round |-> acc.machines_in_round \cup {machine}]

RECURSIVE process_games(_, _, _, _, _, _, _, _, _)
process_games(acc, match, round_info, games, team, venue, roster, excluded, latest) ==
    IF games = <<>> THEN acc
    ELSE process_games(
            process_game(acc, match, round_info, Head(games), team, venue, roster,
                         excluded, latest),
            match, round_info, Tail(games), team, venue, roster, excluded, latest)

\* lines 834-887: the rounds of one match; machines_in_round starts empty in each
RECURSIVE process_rounds(_, _, _, _, _, _, _, _)
process_rounds(acc, match, rounds, team, venue, roster, excluded, latest) ==
    IF rounds = <<>> THEN acc
    ELSE process_rounds(
            process_games([acc EXCEPT !.machines_in_round = {}], match, Head(rounds),
                          Head(rounds).games, team, venue, roster, excluded, latest),
            match, Tail(rounds), team, venue, roster, excluded, latest)

RECURSIVE process_matches(_, _, _, _, _, _, _)
process_matches(acc, data, team, venue, roster, excluded, latest) ==
    IF data = <<>> THEN acc
    ELSE process_matches(
            process_rounds(acc, Head(data), Head(data).rounds, team, venue, roster,
                           excluded, latest),
            Tail(data), team, venue, roster, excluded, latest)

\* returns [df, recent]: the event table and recent_machines
process_all_rounds_and_games(data, team, venue, twc_team, roster, included, excluded) ==
    LET result == process_matches([df |-> <<>>, recent |-> included, machines_in_round |-> {}],
                                  data, team, venue, roster, excluded,
                                  overall_latest_season(data))
    IN  [df |-> result.df, recent |-> result.recent]

-----------------------------------------------------------------------------
(* filter_data and calculate_stat_for_column.  None and the empty text are *)
(* both <<>>: the code tests them with "if team:", "if seasons:" and       *)
(* "if venue:".                                                            *)

NoValue == <<>>

filter_data(df, team, seasons, venue, roster_only) ==
    LET TeamOk(row) ==
            team # NoValue =>
                /\ Lower(Strip(row.team)) = Lower(Strip(team))
                /\ roster_only => row.is_roster_player
        SeasonOk(row) ==
            seasons # NoValue => (seasons[1] <= row.season /\ row.season <= seasons[2])
        VenueOk(row) ==
            venue # NoValue => Strip(row.venue) = Strip(venue)
        Keep(row) == TeamOk(row) /\ SeasonOk(row) /\ VenueOk(row)
    IN  SelectSeq(df, Keep)

\* config.get(field, default) on a column's configuration record
ConfigGet(config, field, default) ==
    IF field \in DOMAIN config THEN config[field] ELSE default

\* f"{n:,}" for a count n >= 0
RECURSIVE FormatThousands(_)
FormatThousands(n) ==
    IF n < 1000 THEN ToString(n)
    ELSE LET r == n % 1000
         IN  FormatThousands(n \div 1000) \o ","
             \o (IF r < 10 THEN "00" ELSE IF r < 100 THEN "0" ELSE "") \o ToString(r)

\* groupby(['match', 'round'])
group_key(row) == <<row.match, row.round>>

\* Variant: no grouping, every row counts.
first_rows_all(rows) == 1..Len(rows)

\* Variant: groupby(...).last(), the last row of every group.
last_rows(rows) ==
    {i \in 1..Len(rows) : \A j \in (i + 1)..Len(rows) : group_key(rows[j]) # group_key(rows[i])}

\* groupby(['match', 'round']).first(): the index of the first row of every group
first_rows(rows) ==
    {i \in 1..Len(rows) : \A j \in 1..(i - 1) : group_key(rows[j]) # group_key(rows[i])}

CountColumns == {"Times Played", "TWC Times Played", "Times Picked", "TWC Times Picked"}
AverageColumns == {"Team Average", "TWC Average", "Venue Average"}
PercentColumns == {"% of V. Avg.", "TWC % V. Avg."}
TwcColumns == {"TWC Average", "TWC % V. Avg.", "TWC Times Played", "TWC Times Picked"}
\* the columns of the configuration (lines 313-324)
AllColumns == AverageColumns \cup {"Team Highest Score"} \cup PercentColumns \cup CountColumns

\* the team a column is about (lines 935, 946, 968, 979, 991, 1003, 1016)
column_team(column, team, twc_team) ==
    IF column \in {"Team Average", "Team Highest Score", "Times Played", "Times Picked"}
    THEN team ELSE twc_team

\* the rows a column is computed from: filter_data, then the rows of the
\* machine (lines 935-937, 957-959, 979-981 and alike)
machine_data(df, machine, column, team, twc_team, venue, col_config) ==
    LET config == IF column \in DOMAIN col_config THEN col_config[column] ELSE <<>>
        seasons == ConfigGet(config, "seasons", <<1, 9999>>)
        venue_specific == ConfigGet(config, "venue_specific", FALSE)
        filtered_df ==
            IF column = "Venue Average"
            THEN filter_data(df, NoValue, seasons, venue, FALSE)
            ELSE filter_data(df, column_team(column, team, twc_team), seasons,
                             IF venue_specific THEN venue ELSE NoValue, TRUE)
        OnMachine(row) == row.machine = machine
    IN  SelectSeq(filtered_df, OnMachine)

\* Numbers.  A float the code computes from integer scores is kept as the exact
\* fraction num/den (den > 0); f"{x:.2f}" rounds it to hundredths, ties to the
\* even neighbour, which is what the float formatting does for every tie that
\* is exactly representable.
Abs(n) == IF n < 0 THEN 0 - n ELSE n

RoundHalfEven(a, b) ==
    LET q == a \div b
        r == a % b
    IN  IF 2 * r < b THEN q
        ELSE IF 2 * r > b THEN q + 1
        ELSE IF q % 2 = 0 THEN q ELSE q + 1

DigitChars == <<"0", "1", "2", "3", "4", "5", "6", "7", "8", "9">>

RECURSIVE DigitsOf(_)
DigitsOf(n) ==
    IF n < 10 THEN <<DigitChars[n + 1]>>
    ELSE Append(DigitsOf(n \div 10), DigitChars[(n % 10) + 1])

\* the "," option of a format: digits in groups of three
RECURSIVE Grouped(_)
Grouped(n) ==
    IF n < 1000 THEN DigitsOf(n)
    ELSE LET r == n % 1000
         IN  Grouped(n \div 1000)
             \o <<",", DigitChars[(r \div 100) + 1], DigitChars[((r \div 10) % 10) + 1],
                  DigitChars[(r % 10) + 1]>>

\* f"{x:,.2f}" (commas) and f"{x:.2f}" for x = num / den
FormatFixed2(num, den, commas) ==
    LET h == RoundHalfEven(100 * Abs(num), den)
        whole == h \div 100
        frac == h % 100
    IN  (IF num < 0 THEN <<"-">> ELSE <<>>)
        \o (IF commas THEN Grouped(whole) ELSE DigitsOf(whole))
        \o <<".", DigitChars[(frac \div 10) + 1], DigitChars[(frac % 10) + 1]>>

\* f"{n:,}" for an integer of either sign
FormatInteger(n) == IF n < 0 THEN "-" \o FormatThousands(0 - n) ELSE FormatThousands(n)

RECURSIVE SumScores(_)
SumScores(rows) == IF rows = <<>> THEN 0 ELSE Head(rows).score + SumScores(Tail(rows))

RECURSIVE MaxScore(_)
MaxScore(rows) ==
    IF Len(rows) = 1 THEN rows[1].score
    ELSE LET rest == MaxScore(Tail(rows))
         IN  IF rows[1].score > rest THEN rows[1].score ELSE rest

NA == <<"N", "/", "A">>         \* the text "N/A" of a column that is parsed later

\* lines 923-1037.  The averages, which calculate_averages parses again, are
\* texts character by character; the counts and the highest score are strings.
calculate_stat_for_column(df, machine, column, team, twc_team, venue, col_config) ==
    LET rows == machine_data(df, machine, column, team, twc_team, venue, col_config)
        unique_games == first_rows(rows)
    IN  IF column \in AverageColumns
        THEN IF Len(rows) = 0 THEN NA
             ELSE FormatFixed2(SumScores(rows), Len(rows), TRUE)
        ELSE IF column = "Team Highest Score"
        THEN IF Len(rows) = 0 THEN "N/A" ELSE FormatInteger(MaxScore(rows))
        ELSE IF column \in PercentColumns THEN "Calculated later"
        ELSE IF column \notin CountColumns \/ Len(rows) = 0 THEN "N/A"
        ELSE IF column \in {"Times Played", "TWC Times Played"}
             THEN FormatThousands(Cardinality(unique_games))
        ELSE IF column = "Times Picked"
             THEN FormatThousands(Cardinality({i \in unique_games : rows[i].is_pick = TRUE}))
        ELSE FormatThousands(Cardinality({i \in unique_games : rows[i].is_pick_twc = TRUE}))

\* Character order of the texts the code sorts: the characters that occur, in
\* the order of their code points.
CodePoints ==
    <<" ", "%", ",", "-", ".", "/", "0", "1", "2", "3", "4", "5", "6", "7", "8", "9",
      "A", "C", "D", "E", "G", "M", "N", "O", "T", "V", "W", "X", "Y",
      "a", "c", "d", "e", "g", "m", "o", "t", "v", "w", "x", "y">>
CharCode(c) == CHOOSE i \in 1..Len(CodePoints) : CodePoints[i] = c

\* a < b for two texts, as Python compares str
RECURSIVE StrLess(_, _)
StrLess(a, b) ==
    IF b = <<>> THEN FALSE
    ELSE IF a = <<>> THEN TRUE
    ELSE IF Head(a) # Head(b) THEN CharCode(Head(a)) < CharCode(Head(b))
    ELSE StrLess(Tail(a), Tail(b))

\* sorted(S) for a set of texts
RECURSIVE SortedTexts(_)
SortedTexts(S) ==
    IF S = {} THEN <<>>
    ELSE LET least == CHOOSE x \in S : \A y \in S \ {x} : StrLess(x, y)
         IN  <<least>> \o SortedTexts(S \ {least})

UpperChar(c) ==
    CASE c = "a" -> "A"
      [] c = "c" -> "C"
      [] c = "d" -> "D"
      [] c = "e" -> "E"
      [] c = "g" -> "G"
      [] c = "m" -> "M"
      [] c = "o" -> "O"
      [] c = "t" -> "T"
      [] OTHER -> c

IsLetter(c) == UpperChar(c) # c \/ LowerChar(c) # c

\* str.title(): the first letter of every word in upper case, the others lower
Title(s) ==
    [i \in 1..Len(s) |->
        IF i = 1 \/ ~IsLetter(s[i - 1]) THEN UpperChar(s[i]) ELSE LowerChar(s[i])]

\* float(text) of safe_get: a number as the fraction num / den, or nan when the
\* text is not a number ("N/A")
NaN == [nan |-> TRUE, num |-> 0, den |-> 1]

RECURSIVE DigitsValue(_)
DigitsValue(ds) ==
    IF ds = <<>> THEN 0
    ELSE 10 * DigitsValue(SubSeq(ds, 1, Len(ds) - 1))
         + ((CHOOSE i \in 1..10 : DigitChars[i] = ds[Len(ds)]) - 1)

RECURSIVE PowerOfTen(_)
PowerOfTen(k) == IF k = 0 THEN 1 ELSE 10 * PowerOfTen(k - 1)

ParseFloat(text) ==
    LET negative == text # <<>> /\ Head(text) = "-"
        body == IF negative THEN Tail(text) ELSE text
        points == {i \in 1..Len(body) : body[i] = "."}
        IsDigit(c) == \E i \in 1..10 : DigitChars[i] = c
        digits == SelectSeq(body, IsDigit)
        decimals == IF points = {} THEN 0 ELSE Len(body) - (CHOOSE i \in points : TRUE)
        valid == /\ digits # <<>>
                 /\ Cardinality(points) <= 1
                 /\ Len(digits) + Cardinality(points) = Len(body)
    IN  IF ~valid THEN NaN
        ELSE [nan |-> FALSE,
              num |-> IF negative THEN 0 - DigitsValue(digits) ELSE DigitsValue(digits),
              den |-> PowerOfTen(decimals)]

\* lines 1058-1063: row.get(key, "N/A"), without "," and what follows a "*"
safe_get(row, key) ==
    LET v == IF key \in DOMAIN row THEN row[key] ELSE NA
        NotComma(c) == c # ","
        plain == SelectSeq(v, NotComma)
        stars == {i \in 1..Len(plain) : plain[i] = "*"}
        first == IF stars = {} THEN plain
                 ELSE SubSeq(plain, 1, (CHOOSE i \in stars : \A j \in stars : i <= j) - 1)
    IN  ParseFloat(first)

\* lines 1069-1070: f"{(avg / venue_avg * 100):.2f}%", or "N/A"
percent_of_venue(avg, venue_avg) ==
    IF ~avg.nan /\ ~venue_avg.nan /\ venue_avg.num # 0
    THEN LET sign == IF venue_avg.num < 0 THEN 0 - 1 ELSE 1
         IN  FormatFixed2(sign * 100 * avg.num * venue_avg.den,
                          avg.den * Abs(venue_avg.num), FALSE) \o <<"%">>
    ELSE NA

\* lines 1039-1074: one row per machine of sorted(recent_machines); a row maps
\* "Machine", every included column and the two percentage columns to a value
calculate_averages(df, recent, team, twc_team, venue, col_config) ==
    LET order == SortedTexts(recent)
        included == {c \in DOMAIN col_config : ConfigGet(col_config[c], "include", TRUE)}
        Row(machine) ==
            LET row == [c \in included |->
                           calculate_stat_for_column(df, machine, c, team, twc_team,
                                                     venue, col_config)]
                team_avg == safe_get(row, "Team Average")
                twc_avg == safe_get(row, "TWC Average")
                venue_avg == safe_get(row, "Venue Average")
            IN  [c \in {"Machine"} \cup included \cup PercentColumns |->
                    IF c = "Machine" THEN Title(machine)
                    ELSE IF c = "% of V. Avg." THEN percent_of_venue(team_avg, venue_avg)
                    ELSE IF c = "TWC % V. Avg." THEN percent_of_venue(twc_avg, venue_avg)
                    ELSE row[c]]
    IN  [i \in 1..Len(order) |-> Row(order[i])]

\* line 1173: sort_values(by, ascending=False) on a column of texts: every order
\* of the rows in which no row is followed by one with a greater text; rows
\* with equal texts may come out in either order
sort_values_descending(df, by) ==
    {[i \in 1..Len(df) |-> df[p[i]]] :
        p \in {q \in [1..Len(df) -> 1..Len(df)] :
                  /\ \A i, j \in 1..Len(df) : i # j => q[i] # q[j]
                  /\ \A i, j \in 1..Len(df) : i < j => ~StrLess(df[q[i]][by], df[q[j]][by])}}

-----------------------------------------------------------------------------
(* build_player_machine_stats.  A number is the exact fraction num / den   *)
(* in lowest terms, or nan (the mean of no scores).                        *)

RECURSIVE GCD(_, _)
GCD(a, b) == IF b = 0 THEN a ELSE GCD(b, a % b)

Frac(n, d) ==
    LET g == GCD(Abs(n), Abs(d))
        sign == IF d < 0 THEN 0 - 1 ELSE 1
    IN  [nan |-> FALSE, num |-> (sign * n) \div g, den |-> Abs(d) \div g]

Whole(n) == Frac(n, 1)
RAdd(a, b) == Frac(a.num * b.den + b.num * a.den, a.den * b.den)
RSub(a, b) == Frac(a.num * b.den - b.num * a.den, a.den * b.den)
RMul(a, b) == Frac(a.num * b.num, a.den * b.den)
RDiv(a, b) == Frac(a.num * b.den, a.den * b.num)
\* a < b and a > 0; a comparison with nan is false
RLess(a, b) == ~a.nan /\ ~b.nan /\ a.num * b.den < b.num * a.den
RPos(a) == ~a.nan /\ a.num > 0
RMin(a, b) == IF RLess(b, a) THEN b ELSE a
RMax(a, b) == IF RLess(a, b) THEN b ELSE a

\* Series.mean() and np.mean of the scores of some rows
Mean(rows) == IF Len(rows) = 0 THEN NaN ELSE Frac(SumScores(rows), Len(rows))

\* the sum of f[x] over the x of S
RECURSIVE RSum(_, _)
RSum(f, S) ==
    IF S = {} THEN Whole(0)
    ELSE LET x == CHOOSE y \in S : TRUE IN RAdd(f[x], RSum(f, S \ {x}))

TwcTeamName == <<"T">>          \* line 1986: "The Wrecking Crew", written T here
TwcAbbr == "TWC"                \* line 1993

\* lines 1989-1990
venue_data_of(df, venue, seasons_to_process) ==
    LET Keep(row) == row.venue = venue /\ row.season \in seasons_to_process
    IN  SelectSeq(df, Keep)

\* lines 2001-2013, as a set
filtered_machines_of(venue_data, included_machines, excluded_machines) ==
    ({venue_data[i].machine : i \in 1..Len(venue_data)} \cup included_machines)
    \ excluded_machines

RowsOn(rows, machine) ==
    LET On(row) == row.machine = machine IN SelectSeq(rows, On)
RowsOfTeam(rows, team) ==
    LET Of(row) == row.team = team IN SelectSeq(rows, Of)
RowsOfPlayer(rows, player) ==
    LET Of(row) == row.player_name = player IN SelectSeq(rows, Of)

\* lines 2017-2032: the opponent's record of a machine
opponent_machine_stats(venue_data, machine, opponent) ==
    LET rows == RowsOfTeam(RowsOn(venue_data, machine), opponent)
    IN  [average_score |-> IF Len(rows) > 0 THEN Mean(rows) ELSE NoValue,
         plays_count |-> Cardinality({group_key(rows[i]) : i \in 1..Len(rows)}),
         players_count |-> Cardinality({rows[i].player_name : i \in 1..Len(rows)}),
         scores |-> [i \in 1..Len(rows) |-> rows[i].score]]

\* lines 2042-2049
twc_players_of(venue_data, roster_data) ==
    (IF TwcAbbr \in DOMAIN roster_data THEN roster_data[TwcAbbr] ELSE {})
    \cup {venue_data[i].player_name :
             i \in {j \in 1..Len(venue_data) : venue_data[j].team = TwcTeamName}}

\* lines 2073-2100: a player's record of a machine, the rank left at 0
player_machine_record(venue_data, player, machine) ==
    LET rows == RowsOn(RowsOfTeam(RowsOfPlayer(venue_data, player), TwcTeamName), machine)
        venue_avg == Mean(RowsOn(venue_data, machine))
        avg_score == Mean(rows)
    IN  [scores |-> [i \in 1..Len(rows) |-> rows[i].score],
         average_score |-> avg_score,
         pct_of_venue |-> IF RPos(venue_avg)
                          THEN RMul(RDiv(avg_score, venue_avg), Whole(100))
                          ELSE Whole(0),
         plays_count |-> Len(rows),
         rank_on_team |-> 0]

\* lines 2052-2107: a player's entry before the ranks are assigned
player_entry(venue_data, player, machines) ==
    LET player_twc_data == RowsOfTeam(RowsOfPlayer(venue_data, player), TwcTeamName)
        player_machines ==
            {player_twc_data[i].machine : i \in 1..Len(player_twc_data)} \cap machines
        records == [m \in player_machines |-> player_machine_record(venue_data, player, m)]
        pcts == [m \in player_machines |-> records[m].pct_of_venue]
    IN  [machines |-> records,
         overall_average_pct_of_venue |->
             IF player_machines = {} THEN Whole(0)
             ELSE RDiv(RSum(pcts, player_machines), Whole(Cardinality(player_machines))),
         total_games_played |-> Len(player_twc_data),
         experience_breadth |-> Cardinality(player_machines)]

\* lines 2109-2130: the rank of a player on a machine: the players with a
\* record of the machine, by percentage, the higher first; players with equal
\* percentages stay in the order in which the dict holds them
rank_of(entries, order, player, machine) ==
    LET Place(p) == CHOOSE i \in 1..Len(order) : order[i] = p
        Pct(p) == entries[p].machines[machine].pct_of_venue
        others == {q \in DOMAIN entries : machine \in DOMAIN entries[q].machines}
    IN  1 + Cardinality({q \in others :
                            \/ RLess(Pct(player), Pct(q))
                            \/ Pct(q) = Pct(player) /\ Place(q) < Place(player)})

\* the value of "Top TWC Players": the first three of the ranking
top_players(entries, order, machine) ==
    LET ranked == {p \in DOMAIN entries : machine \in DOMAIN entries[p].machines}
        n == IF Cardinality(ranked) < 3 THEN Cardinality(ranked) ELSE 3
    IN  [i \in 1..n |-> CHOOSE p \in ranked : rank_of(entries, order, p, machine) = i]

\* min(max(experience_advantage / 5 * 20, -100), 100)
normalized_exp_adv(experience_advantage) ==
    RMin(RMax(RMul(RDiv(Whole(experience_advantage), Whole(5)), Whole(20)), Whole(0 - 100)),
         Whole(100))

\* lines 2156-2193: the composite score of a machine
composite_score(twc_pct, opponent_pct, twc_plays, opponent_plays) ==
    IF RPos(twc_pct) /\ opponent_pct = Whole(0) THEN Whole(100)
    ELSE IF twc_pct = Whole(0) /\ RPos(opponent_pct) THEN Whole(0 - 100)
    ELSE IF twc_pct = Whole(0) /\ opponent_pct = Whole(0) THEN Whole(0)
    ELSE RAdd(RMul(RSub(twc_pct, opponent_pct), Frac(7, 10)),
              RMul(normalized_exp_adv(twc_plays - opponent_plays), Frac(3, 10)))

\* lines 2160-2193: the advantage level of a machine
advantage_level(twc_pct, opponent_pct) ==
    IF RPos(twc_pct) /\ opponent_pct = Whole(0) THEN "Strong TWC Advantage"
    ELSE IF twc_pct = Whole(0) /\ RPos(opponent_pct) THEN "Strong Opponent Advantage"
    ELSE IF twc_pct = Whole(0) /\ opponent_pct = Whole(0) THEN "Neutral"
    ELSE IF RLess(Whole(20), RSub(twc_pct, opponent_pct)) THEN "TWC Advantage"
    ELSE IF RLess(RSub(twc_pct, opponent_pct), Whole(0 - 20)) THEN "Opponent Advantage"
    ELSE "Slight/No Advantage"

AdvantageColumns ==
    {"Machine", "Venue Average", "TWC Average", "TWC % of Venue", "Opponent Average",
     "Opponent % of Venue", "Statistical Advantage", "TWC Plays", "Opponent Plays",
     "Experience Advantage", "TWC Players", "Opponent Players",
     "Player Coverage Advantage", "Advantage Level", "Composite Score",
     "Top TWC Players", "Available at Venue"}

\* lines 2134-2214: the row of a machine in the advantage table
machine_advantage_row(venue_data, entries, order, machine, opponent) ==
    LET venue_avg == Mean(RowsOn(venue_data, machine))
        opponent_stats == opponent_machine_stats(venue_data, machine, opponent)
        opponent_avg ==
            IF opponent_stats.average_score = NoValue THEN Whole(0)
            ELSE opponent_stats.average_score
        opponent_pct ==
            IF RPos(venue_avg) /\ RPos(opponent_avg)
            THEN RMul(RDiv(opponent_avg, venue_avg), Whole(100)) ELSE Whole(0)
        experienced == {p \in DOMAIN entries : machine \in DOMAIN entries[p].machines}
        plays == [p \in experienced |-> entries[p].machines[machine].plays_count]
        weighted == [p \in experienced |->
                        RMul(entries[p].machines[machine].average_score, Whole(plays[p]))]
        twc_plays == RSum([p \in experienced |-> Whole(plays[p])], experienced).num
        twc_avg == IF experienced = {} THEN Whole(0)
                   ELSE RDiv(RSum(weighted, experienced), Whole(twc_plays))
        twc_pct ==
            IF RPos(venue_avg) /\ RPos(twc_avg)
            THEN RMul(RDiv(twc_avg, venue_avg), Whole(100)) ELSE Whole(0)
    IN  [c \in AdvantageColumns |->
            CASE c = "Machine" -> machine
              [] c = "Venue Average" -> venue_avg
              [] c = "TWC Average" -> twc_avg
              [] c = "TWC % of Venue" -> twc_pct
              [] c = "Opponent Average" -> opponent_avg
              [] c = "Opponent % of Venue" -> opponent_pct
              [] c = "Statistical Advantage" ->
                    IF RPos(twc_pct) /\ RPos(opponent_pct)
                    THEN RSub(twc_pct, opponent_pct) ELSE NoValue
              [] c = "TWC Plays" -> twc_plays
              [] c = "Opponent Plays" -> opponent_stats.plays_count
              [] c = "Experience Advantage" -> twc_plays - opponent_stats.plays_count
              [] c = "TWC Players" -> Cardinality(experienced)
              [] c = "Opponent Players" -> opponent_stats.players_count
              [] c = "Player Coverage Advantage" ->
                    Cardinality(experienced) - opponent_stats.players_count
              [] c = "Advantage Level" -> advantage_level(twc_pct, opponent_pct)
              [] c = "Composite Score" ->
                    composite_score(twc_pct, opponent_pct, twc_plays,
                                    opponent_stats.plays_count)
              [] c = "Top TWC Players" -> top_players(entries, order, machine)
              [] c = "Available at Venue" -> TRUE]

\* every order of the elements of a set
OrdersOf(S) ==
    {q \in [1..Cardinality(S) -> S] : \A i, j \in 1..Cardinality(S) : i # j => q[i] # q[j]}

\* line 2218: sort_values(by, ascending=False) on a column of numbers; rows
\* with equal numbers may come out in either order
sort_numbers_descending(df, by) ==
    {[i \in 1..Len(df) |-> df[q[i]]] :
        q \in {r \in OrdersOf(1..Len(df)) :
                  \A i, j \in 1..Len(df) : i < j => ~RLess(df[r[i]][by], df[r[j]][by])}}

\* lines 1964-2220: every pair of results the call can produce; the order in
\* which the set of players is walked decides the ranks of players with equal
\* percentages
build_player_machine_stats(all_data_df, opponent_team_name, venue, seasons_to_process, roster_data, included_machines, excluded_machines) ==
    LET venue_data == venue_data_of(all_data_df, venue, seasons_to_process)
        machines == filtered_machines_of(venue_data, included_machines, excluded_machines)
        twc_players == twc_players_of(venue_data, roster_data)
        entries == [p \in twc_players |-> player_entry(venue_data, p, machines)]
        Ranked(order) ==
            [p \in twc_players |->
                [entries[p] EXCEPT !.machines =
                    [m \in DOMAIN entries[p].machines |->
                        [entries[p].machines[m] EXCEPT
                            !.rank_on_team = rank_of(entries, order, p, m)]]]]
        Table(order) ==
            LET listed == SortedTexts(machines)
            IN  [i \in 1..Len(listed) |->
                    machine_advantage_row(venue_data, entries, order, listed[i],
                                          opponent_team_name)]
    IN  UNION {{[player_machine_stats |-> Ranked(order), machine_advantage_df |-> df] :
                   df \in sort_numbers_descending(Table(order), "Composite Score")} :
               order \in OrdersOf(twc_players)}

-----------------------------------------------------------------------------
(* optimize_machine_selections.  Where the code leaves the choice between  *)
(* equally good answers to the solver or to the order of a list, every     *)
(* such answer is a result.                                                *)

Singles == <<"S", "i", "n", "g", "l", "e", "s">>
Doubles == <<"D", "o", "u", "b", "l", "e", "s">>

\* lines 2255-2306: the score of a player on the machine of a row
final_score(stats, machine_row, player) ==
    LET player_stats ==
            IF player \in DOMAIN stats THEN stats[player]
            ELSE [machines |-> <<>>, overall_average_pct_of_venue |-> Whole(0)]
        machine == machine_row["Machine"]
        opponent_pct == machine_row["Opponent % of Venue"]
        player_overall_avg == player_stats.overall_average_pct_of_venue
    IN  IF machine \in DOMAIN player_stats.machines
        THEN LET machine_stats == player_stats.machines[machine]
                 confidence == RMin(Frac(machine_stats.plays_count, 3), Whole(1))
                 player_advantage ==
                     IF RPos(opponent_pct)
                     THEN RSub(machine_stats.pct_of_venue, opponent_pct)
                     ELSE RMul(machine_stats.pct_of_venue, Frac(1, 2))
             IN  RMul(player_advantage, confidence)
        ELSE IF RPos(player_overall_avg)
        THEN RMul(IF RPos(opponent_pct) THEN RSub(player_overall_avg, opponent_pct)
                  ELSE Whole(0),
                  Frac(3, 10))
        ELSE Whole(0)

\* lines 2250-2306
player_machine_scores_of(stats, available_machines_df, available_players) ==
    [p \in available_players |->
        [m \in {available_machines_df[i]["Machine"] : i \in 1..Len(available_machines_df)} |->
            final_score(stats,
                        available_machines_df[CHOOSE i \in 1..Len(available_machines_df) :
                                                  available_machines_df[i]["Machine"] = m],
                        p)]]

Min3(a, b, c) ==
    LET ab == IF a < b THEN a ELSE b IN IF ab < c THEN ab ELSE c

\* linear_sum_assignment on the players x machines matrix: the assignments,
\* as sets of <<player, machine>>, that match every player or every machine,
\* whichever are fewer
full_assignments(players, machines) ==
    IF Cardinality(players) <= Cardinality(machines)
    THEN {{<<p, f[p]>> : p \in players} :
             f \in {g \in [players -> machines] :
                       \A p, q \in players : p # q => g[p] # g[q]}}
    ELSE {{<<f[m], m>> : m \in machines} :
             f \in {g \in [machines -> players] :
                       \A m, n \in machines : m # n => g[m] # g[n]}}

\* Variant: every assignment of the solver is kept.
top_assignments_all(assignments, scores, k) ==
    {t \in OrdersOf(assignments) :
        \A i, j \in 1..Len(t) :
            i < j => ~RLess(scores[t[i][1]][t[i][2]], scores[t[j][1]][t[j][2]])}

\* lines 2363-2367: sorted by score, highest first, the first k
top_assignments(assignments, scores, k) ==
    UNION {{t \in OrdersOf(kept) :
               \A i, j \in 1..Len(t) :
                   i < j => ~RLess(scores[t[i][1]][t[i][2]], scores[t[j][1]][t[j][2]])} :
           kept \in {K \in SUBSET assignments :
                        /\ Cardinality(K) = k
                        /\ \A x \in K, y \in assignments \ K :
                              ~RLess(scores[x[1]][x[2]], scores[y[1]][y[2]])}}

\* lines 2316-2373: the results the call can return
optimize_singles_format(scores, available_machines_df, available_players, num_machines_to_pick) ==
    LET machines == {available_machines_df[i]["Machine"] :
                        i \in 1..Len(available_machines_df)}
        k == Min3(num_machines_to_pick, Len(available_machines_df),
                  Cardinality(available_players))
        Total(a) == RSum([x \in a |-> scores[x[1]][x[2]]], a)
        candidates == full_assignments(available_players, machines)
        optimal == {a \in candidates : \A b \in candidates : ~RLess(Total(a), Total(b))}
    IN  IF k = 0
        THEN {[selected_machines |-> <<>>, player_assignments |-> <<>>]}
        ELSE {[selected_machines |-> [i \in 1..Len(t) |-> t[i][2]],
               player_assignments |->
                   [m \in {t[i][2] : i \in 1..Len(t)} |->
                       <<t[CHOOSE i \in 1..Len(t) :
                             t[i][2] = m /\ \A j \in (i + 1)..Len(t) : t[j][2] # m][1]>>]] :
              t \in UNION {top_assignments(a, scores, k) : a \in optimal}}

\* lines 2410-2411: player_machine_scores[player].get(machine, 0)
score_get(player_scores, machine) ==
    IF machine \in DOMAIN player_scores THEN player_scores[machine] ELSE Whole(0)

\* Variant: the mean of the two scores.
combined_score_mean(score1, score2) == RMul(RAdd(score1, score2), Frac(1, 2))

\* line 2415: the score of a pair of players on a machine
combined_score(score1, score2) ==
    RAdd(RMul(RAdd(score1, score2), Frac(1, 2)), RMul(RMin(score1, score2), Frac(1, 2)))

\* lines 2404-2417: the score of the pair <<player1, player2>> on a machine
pair_machine_score(scores, player1, player2, machine) ==
    combined_score(score_get(scores[player1], machine), score_get(scores[player2], machine))

\* Variant: the pass stops one combination short of the number asked for.
limit_reached_early(selected, num_machines_to_pick) ==
    Len(selected) + 1 >= num_machines_to_pick

\* lines 2449-2450
limit_reached(selected, num_machines_to_pick) == Len(selected) >= num_machines_to_pick

\* Variant: only the machine has to be unused.
combination_free_machine(combination, used_machines, used_players) ==
    combination.machine \notin used_machines

\* lines 2453-2454: a combination is skipped when its machine or one of its
\* players is used
combination_free(combination, used_machines, used_players) ==
    /\ combination.machine \notin used_machines
    /\ combination.pair \cap used_players = {}

\* lines 2440-2460: the greedy pass over the triples sorted by score, highest
\* first: the next triple accepted is a best one among those whose machine and
\* players are unused
RECURSIVE selected_combinations(_, _, _)
selected_combinations(selected, all_combinations, num_machines_to_pick) ==
    LET used_players == UNION {selected[i].pair : i \in 1..Len(selected)}
        used_machines == {selected[i].machine : i \in 1..Len(selected)}
        free == {t \in all_combinations :
                    combination_free(t, used_machines, used_players)}
        best == {t \in free : \A u \in free : ~RLess(t.score, u.score)}
    IN  IF limit_reached(selected, num_machines_to_pick) \/ free = {} THEN {selected}
        ELSE UNION {selected_combinations(Append(selected, t), all_combinations,
                                          num_machines_to_pick) : t \in best}

\* lines 2375-2466: the results the call can return; a pair is the set of its
\* two players
optimize_doubles_format(scores, available_machines_df, available_players, num_machines_to_pick) ==
    LET machines == {available_machines_df[i]["Machine"] :
                        i \in 1..Len(available_machines_df)}
        player_pairs == {pair \in SUBSET available_players : Cardinality(pair) = 2}
        PairScore(pair, m) ==
            LET player1 == CHOOSE p \in pair : TRUE
                player2 == CHOOSE p \in pair : p # player1
            IN  pair_machine_score(scores, player1, player2, m)
        all_combinations ==
            {[pair |-> pair, machine |-> m, score |-> PairScore(pair, m)] :
                pair \in player_pairs, m \in machines}
    IN  IF Cardinality(available_players) < num_machines_to_pick * 2
        THEN {[selected_machines |-> <<>>, player_assignments |-> <<>>]}
        ELSE {[selected_machines |-> [i \in 1..Len(t) |-> t[i].machine],
               player_assignments |->
                   [m \in {t[i].machine : i \in 1..Len(t)} |->
                       t[CHOOSE i \in 1..Len(t) : t[i].machine = m].pair]] :
              t \in selected_combinations(<<>>, all_combinations, num_machines_to_pick)}

\* lines 2226-2314
optimize_machine_selections(stats, advantage_df, format_type, available_players, num_machines_to_pick) ==
    LET Available(row) == row["Available at Venue"] = TRUE
        available_machines_df == SelectSeq(advantage_df, Available)
        scores == player_machine_scores_of(stats, available_machines_df, available_players)
    IN  IF Lower(format_type) = <<"s", "i", "n", "g", "l", "e", "s">>
        THEN optimize_singles_format(scores, available_machines_df, available_players,
                                     num_machines_to_pick)
        ELSE optimize_doubles_format(scores, available_machines_df, available_players,
                                     num_machines_to_pick)

-----------------------------------------------------------------------------
(* The inputs the runs are drawn from.                                     *)

TeamX == <<"X">>                \* the selected team
TeamT == <<"T">>                \* the reference team ("The Wrecking Crew", line 1162)
TeamY == <<"Y">>                \* any other team
Teams == {TeamX, TeamT, TeamY}
TeamPairs == {p \in Teams \X Teams : p[1] # p[2]}      \* <<home, away>>

VenueV == <<"V">>               \* the selected venue
VenueW == <<"W">>

MM == <<"M", "M">>              \* a raw alias, upper case
Med == <<"m", "e", "d">>        \* the standard name the alias "mm" maps to
God == <<"G", "o", "d">>        \* a raw name without alias; its canonical form is "god"
Cat == <<"c", "a", "t">>        \* a machine no game is played on
NoMachine == <<>>               \* a game record without machine name

AliasTable == << <<Lower(MM), Med>> >>
ScoreLimit == 2                 \* the ceiling configured for "god" in the runs
Limits == [m \in {Lower(God)} |-> ScoreLimit]

Abbr(t) == CASE t = TeamX -> "XXX" [] t = TeamT -> "TWC" [] t = TeamY -> "YYY"
AbbrDict == [t \in Teams |-> Abbr(t)]
\* every team has a regular, who is on its roster, and a substitute, who is not
PlayerKey(t, who) == Abbr(t) \o "-" \o who
PlayerName(t, who) == "name of " \o PlayerKey(t, who)
LineupOf(t) == << [key |-> PlayerKey(t, "reg"), name |-> PlayerName(t, "reg")],
                  [key |-> PlayerKey(t, "sub"), name |-> PlayerName(t, "sub")] >>
Roster == [a \in {Abbr(t) : t \in Teams} |->
              {PlayerName(t, "reg") : t \in {u \in Teams : Abbr(u) = a}}]

\* A game template is [machine, slots]; a slot is [side, who, score] with side
\* "home", "away" or "none" (a key of neither lineup).
SlotKey(slot, home, away) ==
    IF slot.side = "home" THEN PlayerKey(home, slot.who)
    ELSE IF slot.side = "away" THEN PlayerKey(away, slot.who)
    ELSE "unknown-key"

MakeGame(number, template, home, away) ==
    [n |-> number,
     machine |-> template.machine,
     player |-> [pos \in 1..Len(template.slots) |-> SlotKey(template.slots[pos], home, away)],
     score |-> [pos \in 1..Len(template.slots) |-> template.slots[pos].score]]

SeqsUpTo(S, lo, hi) == UNION {[1..k -> S] : k \in lo..hi}

RECURSIVE Ascending(_)
Ascending(N) ==
    IF N = {} THEN <<>>
    ELSE LET least == CHOOSE x \in N : \A y \in N : x <= y
         IN  <<least>> \o Ascending(N \ {least})

\* the rounds of a match: round numbers N in ascending order, games[n] the
\* game templates of round n
MakeRounds(N, games, home, away) ==
    LET order == Ascending(N)
    IN  [i \in 1..Len(order) |->
            [n |-> order[i],
             games |-> [k \in 1..Len(games[order[i]]) |->
                           MakeGame(k, games[order[i]][k], home, away)]]]

MakeMatch(season, week, venue, home, away, rounds) ==
    [key |-> <<"mnp", season, week>>,
     venue |-> [name |-> venue],
     home |-> [name |-> home, lineup |-> LineupOf(home)],
     away |-> [name |-> away, lineup |-> LineupOf(away)],
     rounds |-> rounds]

RoundNumbers == 1..4

\* every choice of at most MaxRounds round numbers out of Numbers and of a
\* sequence of game templates for each
RoundPlans(Numbers, gameSeqs) ==
    UNION {{[N |-> N, g |-> g] : g \in [N -> gameSeqs]} :
              N \in {M \in SUBSET Numbers : Cardinality(M) <= MaxRounds}}

MatchesOf(seasons, venues, pairs, plans) ==
    {MakeMatch(s, 1, v, p[1], p[2], MakeRounds(r.N, r.g, p[1], p[2])) :
        s \in seasons, v \in venues, p \in pairs, r \in plans}

BothScore(machine) ==
    [machine |-> machine,
     slots |-> << [side |-> "away", who |-> "reg", score |-> 1],
                  [side |-> "home", who |-> "reg", score |-> 1] >>]

\* Pick flags: one match between any two teams, up to MaxRounds rounds, a
\* regular of either team scoring in every game.  The games of a round are
\* none, one, two on different machines, two on the same machine under two raw
\* names, or three with the first machine played again.
PickRoundGames ==
    {<<>>,
     <<BothScore(MM)>>,
     <<BothScore(MM), BothScore(God)>>,
     <<BothScore(MM), BothScore(Med)>>,
     <<BothScore(MM), BothScore(God), BothScore(MM)>>}
PickMatches ==
    MatchesOf({2}, {VenueV}, TeamPairs, RoundPlans(RoundNumbers, PickRoundGames))

\* Score limits: one game of one match, the scores of its two slots ranging
\* around the ceiling of "god".
Scores == (0 - 1)..(ScoreLimit + 1)
LimitGames ==
    {[machine |-> m,
      slots |-> << [side |-> "away", who |-> "reg", score |-> s1],
                   [side |-> "home", who |-> "reg", score |-> s2] >>] :
        m \in {MM, God}, s1 \in Scores, s2 \in Scores}
LimitMatches ==
    {MakeMatch(2, 1, VenueV, TeamT, TeamX, MakeRounds({1}, [n \in {1} |-> <<t>>], TeamT, TeamX)) :
        t \in LimitGames}

\* Recent machines: one or two matches of one game each, at either venue in
\* either season, under every curation of the selected venue.
RecentGames == {[machine |-> m, slots |-> << [side |-> "away", who |-> "reg", score |-> 1] >>] :
                   m \in {MM, God, NoMachine}}
RecentMatch(week, season, venue, t) ==
    MakeMatch(season, week, venue, TeamT, TeamX, MakeRounds({1}, [n \in {1} |-> <<t>>], TeamT, TeamX))
RecentData ==
    {<<RecentMatch(1, s, v, t)>> : s \in {1, 2}, v \in {VenueV, VenueW}, t \in RecentGames}
    \cup {<<RecentMatch(1, s1, v1, t1), RecentMatch(2, s2, v2, t2)>> :
             s1 \in {1, 2}, v1 \in {VenueV, VenueW}, t1 \in RecentGames,
             s2 \in {1, 2}, v2 \in {VenueV, VenueW}, t2 \in RecentGames}
Curations == {{}, {Cat}, {Lower(God)}, {Med, Cat}}

InitBase ==
    /\ pc = "start"
    /\ team_name = TeamX
    /\ twc_team_name = TeamT
    /\ venue_name = VenueV
    /\ team_roster = Roster
    /\ team_abbr_dict = AbbrDict
    /\ current_limits = Limits
    /\ machine_mapping = AliasTable
    /\ machine_name = NoValue
    /\ standard_name = NoValue
    /\ processed_data = <<>>
    /\ recent_machines = {}
    /\ stat = NoValue
    /\ filtered = NoValue
    /\ result_df = NoValue
    /\ player_machine_stats = NoValue
    /\ machine_advantage_df = NoValue
    /\ selection = NoValue
    /\ pair_machine_scores = NoValue

\* the session's column configuration as first set up (lines 305-324): every
\* column included, over the seasons processed, the reference team's columns
\* not venue-specific
SeasonsTuple == <<1, 2>>
DefaultColumnConfig ==
    [c \in AllColumns |->
        [include |-> TRUE, seasons |-> SeasonsTuple,
         venue_specific |-> c \notin TwcColumns, backfill |-> FALSE]]

InitCommon ==
    /\ InitBase
    /\ column_config = DefaultColumnConfig

InitPicks ==
    /\ InitCommon
    /\ all_data \in {<<m>> : m \in PickMatches}
    /\ included_machines_for_venue = {}
    /\ excluded_machines_for_venue = {}

InitLimits ==
    /\ InitCommon
    /\ all_data \in {<<m>> : m \in LimitMatches}
    /\ included_machines_for_venue = {}
    /\ excluded_machines_for_venue = {}

InitRecent ==
    /\ InitCommon
    /\ all_data \in RecentData
    /\ included_machines_for_venue \in Curations
    /\ excluded_machines_for_venue \in Curations

Init == InitPicks \/ InitLimits \/ InitRecent

\* process_all_rounds_and_games, called as main calls it (lines 1167-1170)
Flatten ==
    /\ pc = "start"
    /\ LET result == process_all_rounds_and_games(all_data, team_name, venue_name,
                         twc_team_name, team_roster, included_machines_for_venue,
                         excluded_machines_for_venue)
       IN  /\ processed_data' = result.df
           /\ recent_machines' = result.recent
    /\ pc' = "flattened"
    /\ UNCHANGED <<all_data, team_name, twc_team_name, venue_name, team_roster,
                   included_machines_for_venue, excluded_machines_for_venue,
                   current_limits, machine_mapping, machine_name, standard_name,
                   team_abbr_dict, stat, statsVars, pickingVars>>

Next == Flatten

Spec == Init /\ [][Next]_vars

-----------------------------------------------------------------------------
(* Statistics: calculate_stat_for_column on the table of a flattened run.  *)

\* Matches of the selected team against the reference team, either at home, and
\* of the reference team away to another team.  Game templates: the away regular
\* or the away substitute scores against the home regular; "MM" and "med" are
\* the same machine once standardized.
StatGames ==
    {BothScore(MM), BothScore(God),
     [machine |-> Med,
      slots |-> << [side |-> "away", who |-> "sub", score |-> 1],
                   [side |-> "home", who |-> "reg", score |-> 1] >>]}
StatMatches(week, places) ==
    {MakeMatch(pl[1], week, pl[2], p[1], p[2], MakeRounds(r.N, r.g, p[1], p[2])) :
        pl \in places, p \in {<<TeamX, TeamT>>, <<TeamT, TeamX>>, <<TeamY, TeamT>>},
        r \in RoundPlans({1, 2}, SeqsUpTo(StatGames, 0, MaxGames))}
StatData ==
    {<<m>> : m \in StatMatches(1, {<<2, VenueV>>, <<1, VenueW>>})}
    \cup {<<m, RecentMatch(2, 2, VenueV, BothScore(MM))>> :
             m \in StatMatches(1, {<<2, VenueV>>, <<1, VenueW>>})}

\* the configurations of a column: a season window, venue-specific or not
ColumnConfigs ==
    {[c \in CountColumns |-> [include |-> TRUE, seasons |-> w, venue_specific |-> v]] :
        w \in {<<1, 2>>, <<2, 2>>}, v \in BOOLEAN}

\* the machine the statistics are asked for; games on "god" are in the table too
StatMachines == {Med}

InitStats ==
    /\ InitCommon
    /\ all_data \in StatData
    /\ included_machines_for_venue = {}
    /\ excluded_machines_for_venue = {}

\* calculate_stat_for_column for one machine and one count column
CalculateStat ==
    /\ pc = "flattened"
    /\ \E machine \in StatMachines, column \in CountColumns, config \in ColumnConfigs :
          stat' = [machine |-> machine,
                   column |-> column,
                   column_config |-> config,
                   value |-> calculate_stat_for_column(processed_data, machine, column,
                                 team_name, twc_team_name, venue_name, config)]
    /\ pc' = "stat"
    /\ UNCHANGED <<all_data, team_name, twc_team_name, venue_name, team_roster,
                   included_machines_for_venue, excluded_machines_for_venue,
                   current_limits, machine_mapping, machine_name, standard_name,
                   processed_data, recent_machines, team_abbr_dict, statsVars,
                   pickingVars>>

NextStats == Flatten \/ CalculateStat

SpecStats == InitStats /\ [][NextStats]_vars

-----------------------------------------------------------------------------
(* The result table of main: calculate_averages on the table of a          *)
(* flattened run, then sorted by the primary team's percentage.            *)

\* One or two matches of one game each, the reference team at home to the
\* selected team: the first at either venue, with a regular or a substitute
\* playing away, the second at the selected venue.  Both players score, low or
\* high, so that a team's average lies below, at or above the venue's.
AverageScores == {1, ScoreLimit}
AverageGames(whos) ==
    {[machine |-> m,
      slots |-> << [side |-> "away", who |-> w, score |-> s1],
                   [side |-> "home", who |-> "reg", score |-> s2] >>] :
        m \in {MM, God}, w \in whos, s1 \in AverageScores, s2 \in AverageScores}
AverageMatch(week, venue, t) ==
    MakeMatch(2, week, venue, TeamT, TeamX, MakeRounds({1}, [n \in {1} |-> <<t>>], TeamT, TeamX))
AverageData ==
    LET first == {AverageMatch(1, v, t) : v \in {VenueV, VenueW},
                                          t \in AverageGames({"reg", "sub"})}
        second == {AverageMatch(2, VenueV, t) : t \in AverageGames({"reg"})}
    IN  {<<m>> : m \in first} \cup {<<m1, m2>> : m1 \in first, m2 \in second}

\* the configurations of the table: every column or all but one, all columns
\* venue-specific or none
AverageConfigs ==
    {[c \in AllColumns |->
         [include |-> c \notin off, seasons |-> SeasonsTuple, venue_specific |-> v,
          backfill |-> FALSE]] :
        off \in {{}, {"Team Average"}, {"Venue Average"}, {"% of V. Avg."}},
        v \in BOOLEAN}

InitAverages ==
    /\ InitBase
    /\ all_data \in AverageData
    /\ included_machines_for_venue \in {{}, {Cat}}
    /\ excluded_machines_for_venue = {}
    /\ column_config \in AverageConfigs

\* main after the flattening (lines 1172-1173): calculate_averages, then
\* sort_values, which raises KeyError on a table without rows
Averages ==
    /\ pc = "flattened"
    /\ LET table == calculate_averages(processed_data, recent_machines, team_name,
                                       twc_team_name, venue_name, column_config)
       IN  IF Len(table) = 0
           THEN /\ result_df' = NoValue
                /\ pc' = "raised"
           ELSE /\ result_df' \in sort_values_descending(table, "% of V. Avg.")
                /\ pc' = "averaged"
    /\ UNCHANGED <<all_data, team_name, twc_team_name, venue_name, team_roster,
                   included_machines_for_venue, excluded_machines_for_venue,
                   current_limits, machine_mapping, machine_name, standard_name,
                   processed_data, recent_machines, team_abbr_dict, stat, filtered,
                   column_config, pickingVars>>

NextAverages == Flatten \/ Averages

SpecAverages == InitAverages /\ [][NextAverages]_vars

-----------------------------------------------------------------------------
(* Strategic picking: analyze_picking_strategy on the table of a flattened *)
(* run, then optimize_machine_selections on its results.                   *)

MaxPicks == 2       \* most machines the optimizer is asked for

SeasonsToProcess == {1, 2}      \* st.session_state["seasons_to_process"]

\* the reference team's roster holds two more players, who have not played
PickingRoster ==
    [Roster EXCEPT ![Abbr(TeamT)] = @ \cup {PlayerName(TeamT, "new"), PlayerName(TeamT, "old")}]

\* One match of one game, the reference team at home to the selected team, at
\* either venue, optionally followed by a match of a third team at home to the
\* selected team.  A slot with score 0 is an empty slot; the home player, a
\* regular or a substitute, may also have a score below 0.
PickingGames ==
    {[machine |-> m,
      slots |-> << [side |-> "away", who |-> "reg", score |-> sx],
                   [side |-> "home", who |-> w, score |-> st] >>] :
        m \in {MM, God}, w \in {"reg", "sub"}, sx \in {0, 1},
        st \in {0 - 1, 0, ScoreLimit}}
PickingData ==
    LET first == {MakeMatch(2, 1, v, TeamT, TeamX,
                            MakeRounds({1}, [n \in {1} |-> <<t>>], TeamT, TeamX)) :
                     v \in {VenueV, VenueW}, t \in PickingGames}
        second == {MakeMatch(2, 2, VenueV, TeamY, TeamX,
                             MakeRounds({1}, [n \in {1} |-> <<t>>], TeamY, TeamX)) :
                      t \in {[machine |-> God,
                              slots |-> << [side |-> "away", who |-> "reg", score |-> sx],
                                           [side |-> "home", who |-> "reg", score |-> 1] >>] :
                                sx \in {0, 1}}}
    IN  {<<m>> : m \in first} \cup {<<m1, m2>> : m1 \in first, m2 \in second}

\* the venue's stored lists: none, or one machine included that is not played
\* and one excluded that is
StoredLists == {[included |-> {}, excluded |-> {}],
                [included |-> {Cat}, excluded |-> {Med}]}

InitPicking ==
    /\ pc = "start"
    /\ team_name = TeamX
    /\ twc_team_name = TeamT
    /\ venue_name = VenueV
    /\ team_roster = PickingRoster
    /\ team_abbr_dict = AbbrDict
    /\ current_limits = Limits
    /\ machine_mapping = AliasTable
    /\ machine_name = NoValue
    /\ standard_name = NoValue
    /\ processed_data = <<>>
    /\ recent_machines = {}
    /\ stat = NoValue
    /\ filtered = NoValue
    /\ result_df = NoValue
    /\ player_machine_stats = NoValue
    /\ machine_advantage_df = NoValue
    /\ selection = NoValue
    /\ pair_machine_scores = NoValue
    /\ column_config = DefaultColumnConfig
    /\ all_data \in PickingData
    /\ \E lists \in StoredLists :
          /\ included_machines_for_venue = lists.included
          /\ excluded_machines_for_venue = lists.excluded

\* get_venue_machine_list (src/db_helper.py lines 310-321): the machines stored
\* for the venue under a list type; the store holds rows of the types
\* "included" and "excluded" only
get_venue_machine_list(venue, list_type) ==
    IF list_type = "included" THEN included_machines_for_venue
    ELSE IF list_type = "excluded" THEN excluded_machines_for_venue
    ELSE {}

\* analyze_picking_strategy up to the advantage table (lines 2489-2528), called
\* on a table with rows (line 2846).  The lists are asked for under the type
\* "all"; the answer is a list, not a dict, so both lists are taken as empty
\* (lines 2509-2512).  A venue without machines leaves no column to sort by and
\* the call raises KeyError (line 2218).
Analyze ==
    /\ pc = "flattened"
    /\ Len(processed_data) > 0
    /\ LET venue_machine_lists == get_venue_machine_list(venue_name, "all")
           included_machines == {}
           excluded_machines == {}
           results == build_player_machine_stats(processed_data, team_name, venue_name,
                          SeasonsToProcess, team_roster, included_machines,
                          excluded_machines)
       IN  IF \A r \in results : Len(r.machine_advantage_df) = 0
           THEN /\ pc' = "raised"
                /\ UNCHANGED <<player_machine_stats, machine_advantage_df>>
           ELSE /\ \E r \in results :
                      /\ player_machine_stats' = r.player_machine_stats
                      /\ machine_advantage_df' = r.machine_advantage_df
                /\ pc' = "analyzed"
    /\ UNCHANGED <<all_data, team_name, twc_team_name, venue_name, team_roster,
                   included_machines_for_venue, excluded_machines_for_venue,
                   current_limits, machine_mapping, machine_name, standard_name,
                   processed_data, recent_machines, team_abbr_dict, stat, statsVars,
                   selection, pair_machine_scores>>

\* a call of optimize_machine_selections on the results of the analysis:
\* either format, any set of available players, any count up to MaxPicks, and
\* the advantage table or its first rows only.  The two buttons of
\* analyze_picking_strategy call it only with enough players (lines 2606 and
\* 2690); the function itself takes any arguments, and they are all drawn here.
Optimize ==
    /\ pc = "analyzed"
    /\ \E format_type \in {Singles, Doubles},
          available_players \in SUBSET (DOMAIN player_machine_stats),
          num_machines_to_pick \in 1..MaxPicks,
          rows \in 0..Len(machine_advantage_df) :
          \E result \in optimize_machine_selections(player_machine_stats,
                            SubSeq(machine_advantage_df, 1, rows), format_type,
                            available_players, num_machines_to_pick) :
              selection' = [format_type |-> format_type,
                            available_players |-> available_players,
                            num_machines_to_pick |-> num_machines_to_pick,
                            machines |-> {machine_advantage_df[i]["Machine"] : i \in 1..rows},
                            selected_machines |-> result.selected_machines,
                            player_assignments |-> result.player_assignments]
    /\ pc' = "optimized"
    /\ UNCHANGED <<all_data, team_name, twc_team_name, venue_name, team_roster,
                   included_machines_for_venue, excluded_machines_for_venue,
                   current_limits, machine_mapping, machine_name, standard_name,
                   processed_data, recent_machines, team_abbr_dict, stat, statsVars,
                   player_machine_stats, machine_advantage_df, pair_machine_scores>>

NextPicking == Flatten \/ Analyze \/ Optimize

SpecPicking == InitPicking /\ [][NextPicking]_vars

-----------------------------------------------------------------------------
(* The advantage table on games of up to four players: a regular and a     *)
(* substitute of either team, with low and high scores.                    *)

HighScore == 9

\* The first game: the away regular and substitute and the home substitute
\* score 1 or leave the slot empty (score 0); the home regular scores low or
\* high, below 0, or not at all.  The game of a second round: a regular of
\* either team scores 1 or not at all.
AdvantageGames ==
    {[machine |-> MM,
      slots |-> << [side |-> "away", who |-> "reg", score |-> sx1],
                   [side |-> "away", who |-> "sub", score |-> sx2],
                   [side |-> "home", who |-> "reg", score |-> st1],
                   [side |-> "home", who |-> "sub", score |-> st2] >>] :
        sx1 \in {0, 1}, sx2 \in {0, 1}, st1 \in {0 - 1, 0, 1, HighScore}, st2 \in {0, 1}}
AdvantageSecondGames ==
    {[machine |-> Med,
      slots |-> << [side |-> "away", who |-> "reg", score |-> sx],
                   [side |-> "home", who |-> "reg", score |-> st] >>] :
        sx \in {0, 1}, st \in {0, 1}}
AdvantageData ==
    {<<MakeMatch(2, 1, VenueV, TeamT, TeamX,
                 MakeRounds({1}, [n \in {1} |-> <<t>>], TeamT, TeamX))>> :
        t \in AdvantageGames}
    \cup {<<MakeMatch(2, 1, VenueV, TeamT, TeamX,
                      MakeRounds({1, 2}, [n \in {1, 2} |-> IF n = 1 THEN <<t>> ELSE <<u>>],
                                 TeamT, TeamX))>> :
             t \in AdvantageGames, u \in AdvantageSecondGames}

InitAdvantage ==
    /\ pc = "start"
    /\ all_data \in AdvantageData
    /\ team_name = TeamX
    /\ twc_team_name = TeamT
    /\ venue_name = VenueV
    /\ team_roster = PickingRoster
    /\ team_abbr_dict = AbbrDict
    /\ included_machines_for_venue = {}
    /\ excluded_machines_for_venue = {}
    /\ current_limits = Limits
    /\ machine_mapping = AliasTable
    /\ machine_name = NoValue
    /\ standard_name = NoValue
    /\ processed_data = <<>>
    /\ recent_machines = {}
    /\ stat = NoValue
    /\ filtered = NoValue
    /\ column_config = DefaultColumnConfig
    /\ result_df = NoValue
    /\ player_machine_stats = NoValue
    /\ machine_advantage_df = NoValue
    /\ selection = NoValue
    /\ pair_machine_scores = NoValue

NextAdvantage == Flatten \/ Analyze

SpecAdvantage == InitAdvantage /\ [][NextAdvantage]_vars

-----------------------------------------------------------------------------
(* Roster membership: one match of one game with one score slot, under     *)
(* every roster mapping and team-name lookup.                              *)

\* the roster mapping: absent, complete, without the selected team's
\* abbreviation, or with the rosters of the selected and the reference team
\* exchanged
RosterTables ==
    {NoValue, Roster,
     [a \in {Abbr(TeamT), Abbr(TeamY)} |-> Roster[a]],
     [a \in DOMAIN Roster |->
         IF a = Abbr(TeamX) THEN Roster[Abbr(TeamT)]
         ELSE IF a = Abbr(TeamT) THEN Roster[Abbr(TeamX)] ELSE Roster[a]]}
\* the team-name lookup: complete, without the selected team, or with an
\* empty abbreviation for it
AbbrDicts ==
    {AbbrDict,
     [t \in {TeamT, TeamY} |-> Abbr(t)],
     [t \in Teams |-> IF t = TeamX THEN "" ELSE Abbr(t)]}
\* the slot's player key is in the home lineup, in the away lineup or in
\* neither, and belongs to a regular or a substitute
RosterGames ==
    {[machine |-> MM, slots |-> << [side |-> sd, who |-> w, score |-> 1] >>] :
        sd \in {"home", "away", "none"}, w \in {"reg", "sub"}}
RosterMatches ==
    {MakeMatch(2, 1, VenueV, p[1], p[2], MakeRounds({1}, [n \in {1} |-> <<t>>], p[1], p[2])) :
        p \in {<<TeamX, TeamT>>, <<TeamT, TeamX>>}, t \in RosterGames}

InitRoster ==
    /\ pc = "start"
    /\ all_data \in {<<m>> : m \in RosterMatches}
    /\ team_name = TeamX
    /\ twc_team_name = TeamT
    /\ venue_name = VenueV
    /\ team_roster \in RosterTables
    /\ team_abbr_dict \in AbbrDicts
    /\ included_machines_for_venue = {}
    /\ excluded_machines_for_venue = {}
    /\ current_limits = Limits
    /\ machine_mapping = AliasTable
    /\ machine_name = NoValue
    /\ standard_name = NoValue
    /\ processed_data = <<>>
    /\ recent_machines = {}
    /\ stat = NoValue
    /\ filtered = NoValue
    /\ column_config = DefaultColumnConfig
    /\ result_df = NoValue
    /\ player_machine_stats = NoValue
    /\ machine_advantage_df = NoValue
    /\ selection = NoValue
    /\ pair_machine_scores = NoValue

NextRoster == Flatten

SpecRoster == InitRoster /\ [][NextRoster]_vars

-----------------------------------------------------------------------------
(* The score of a pair in optimize_doubles_format, on score tables of two  *)
(* players: a player's table has a score for the machine or none.          *)

PairPlayers == <<PlayerName(TeamT, "reg"), PlayerName(TeamT, "sub")>>
\* individual scores: whole and fractional, of either sign
PairScores == {Whole(n) : n \in {0 - 20, 0, 1, 20, 80}} \cup {Frac(1, 2), Frac(41, 2)}
\* a player's scores by machine: none, or a score on "med"
PlayerScoreTables == {<<>>} \cup {[m \in {Med} |-> v] : v \in PairScores}
PairScoreTables ==
    {[p \in {PairPlayers[1], PairPlayers[2]} |-> IF p = PairPlayers[1] THEN t1 ELSE t2] :
        t1 \in PlayerScoreTables, t2 \in PlayerScoreTables}

InitPairs ==
    /\ InitCommon
    /\ all_data = <<>>
    /\ included_machines_for_venue = {}
    /\ excluded_machines_for_venue = {}

\* lines 2404-2417 for one pair, taken in either order, and one machine
ScorePair ==
    /\ pc = "start"
    /\ \E scores \in PairScoreTables, first \in {1, 2} :
          LET player1 == PairPlayers[first]
              player2 == PairPlayers[3 - first]
          IN  pair_machine_scores' =
                  [scores |-> scores, pair |-> <<player1, player2>>, machine |-> Med,
                   combined_score |-> pair_machine_score(scores, player1, player2, Med)]
    /\ pc' = "paired"
    /\ UNCHANGED <<all_data, team_name, twc_team_name, venue_name, team_roster,
                   included_machines_for_venue, excluded_machines_for_venue,
                   current_limits, machine_mapping, machine_name, standard_name,
                   processed_data, recent_machines, team_abbr_dict, stat, statsVars,
                   player_machine_stats, machine_advantage_df, selection>>

NextPairs == ScorePair

SpecPairs == InitPairs /\ [][NextPairs]_vars

-----------------------------------------------------------------------------
(* The normalizer alone: standardize_machine_name on every short raw name  *)
(* under every small alias table.                                          *)

NameChars == {"a", "A", " "}
AliasKeys == {<<"a">>, <<"A">>, <<"a", "a">>}
AliasValues == {<<"a">>, <<"A">>, <<"A", "a">>}
AliasTables ==
    {d \in SeqsUpTo(AliasKeys \X AliasValues, 0, MaxAliases) :
        \A i, j \in 1..Len(d) : i # j => d[i][1] # d[j][1]}

InitNames ==
    /\ pc = "start"
    /\ machine_name \in TextsUpTo(NameChars, MaxNameLen)
    /\ machine_mapping \in AliasTables
    /\ standard_name = NoValue
    /\ all_data = <<>>
    /\ team_name = TeamX
    /\ twc_team_name = TeamT
    /\ venue_name = VenueV
    /\ team_roster = Roster
    /\ team_abbr_dict = AbbrDict
    /\ current_limits = Limits
    /\ included_machines_for_venue = {}
    /\ excluded_machines_for_venue = {}
    /\ processed_data = <<>>
    /\ recent_machines = {}
    /\ stat = NoValue
    /\ filtered = NoValue
    /\ result_df = NoValue
    /\ player_machine_stats = NoValue
    /\ machine_advantage_df = NoValue
    /\ selection = NoValue
    /\ pair_machine_scores = NoValue
    /\ column_config = DefaultColumnConfig

Standardize ==
    /\ pc = "start"
    /\ standard_name' = standardize_machine_name(machine_mapping, machine_name)
    /\ pc' = "named"
    /\ UNCHANGED <<all_data, team_name, twc_team_name, venue_name, team_roster,
                   included_machines_for_venue, excluded_machines_for_venue,
                   current_limits, machine_mapping, machine_name, processed_data,
                   recent_machines, team_abbr_dict, stat, statsVars, pickingVars>>

NextNames == Standardize

SpecNames == InitNames /\ [][NextNames]_vars

-----------------------------------------------------------------------------
(* The filter alone: filter_data on the table of a flattened run, under    *)
(* every combination of its four arguments.                                *)

VenueLower == <<"v">>           \* the selected venue in lower case
VenuePadded == <<" ", "V">>     \* the selected venue with a leading blank
TeamLowerPadded == <<"x", " ">> \* the selected team in lower case, padded

\* one match of one game; the away player is a regular or a substitute
FilterGames ==
    {[machine |-> MM,
      slots |-> << [side |-> "away", who |-> w, score |-> 1],
                   [side |-> "home", who |-> "reg", score |-> 1] >>] : w \in {"reg", "sub"}}
FilterMatches ==
    {MakeMatch(s, 1, v, TeamT, TeamX, MakeRounds({1}, [n \in {1} |-> <<t>>], TeamT, TeamX)) :
        s \in {1, 2}, v \in {VenueV, VenueLower, VenuePadded, VenueW}, t \in FilterGames}

InitFilter ==
    /\ InitCommon
    /\ all_data \in {<<m>> : m \in FilterMatches}
    /\ included_machines_for_venue = {}
    /\ excluded_machines_for_venue = {}

\* filter_data(df, team, seasons, venue, roster_only) on the flattened table
Filter ==
    /\ pc = "flattened"
    /\ \E team \in {NoValue, TeamX, TeamLowerPadded},
          seasons \in {NoValue, <<2, 2>>},
          venue \in {NoValue, VenueV, VenueLower, VenuePadded},
          roster_only \in BOOLEAN :
          filtered' = [team |-> team, seasons |-> seasons, venue |-> venue,
                       roster_only |-> roster_only,
                       rows |-> filter_data(processed_data, team, seasons, venue,
                                            roster_only)]
    /\ pc' = "filtered"
    /\ UNCHANGED <<all_data, team_name, twc_team_name, venue_name, team_roster,
                   included_machines_for_venue, excluded_machines_for_venue,
                   current_limits, machine_mapping, machine_name, standard_name,
                   processed_data, recent_machines, team_abbr_dict, stat,
                   column_config, result_df, pickingVars>>

NextFilter == Flatten \/ Filter

SpecFilter == InitFilter /\ [][NextFilter]_vars

-----------------------------------------------------------------------------
(* Properties.  An event points back to its game by match key, round       *)
(* number and game number, which are distinct in the match records.        *)

Events == {processed_data[i] : i \in 1..Len(processed_data)}
Matches == {all_data[i] : i \in 1..Len(all_data)}
RoundsOf(m) == {m.rounds[i] : i \in 1..Len(m.rounds)}
GamesOf(r) == {r.games[i] : i \in 1..Len(r.games)}
Flattened == pc = "flattened"

MatchOf(e) == CHOOSE m \in Matches : m.key = e.match
RoundOf(e) == CHOOSE r \in RoundsOf(MatchOf(e)) : r.n = e.round
PlaysIn(t, m) == t = m.home.name \/ t = m.away.name
Normalized(game) == standardize_machine_name(machine_mapping, game.machine)
\* the event's game is the first of its round on the event's machine
FirstOnMachine(e) ==
    \A g \in GamesOf(RoundOf(e)) : g.n < e.game_number => Normalized(g) # e.machine
\* the rounds the league lets a team pick in: 1 and 3 away, 2 and 4 at home
LeagueRounds(t, m) == IF t = m.away.name THEN {1, 3} ELSE {2, 4}
\* the event of a score slot, if it was emitted
EventsOfSlot(m, r, g, pos) ==
    {e \in Events : /\ e.match = m.key
                    /\ e.round = r.n
                    /\ e.game_number = g.n
                    /\ e.player_name = get_player_name(GamePlayer(g, pos), m)}

\* C1: on a machine with a configured score limit L no event has a score above
\* L, and every slot whose score is exactly L has its event.
C1_ScoreCeilingInclusive ==
    Flattened =>
        /\ \A e \in Events :
              e.machine \in DOMAIN current_limits => e.score <= current_limits[e.machine]
        /\ \A m \in Matches : \A r \in RoundsOf(m) : \A g \in GamesOf(r) :
              \A pos \in DOMAIN g.score :
                 (/\ Normalized(g) \in DOMAIN current_limits
                  /\ g.score[pos] = current_limits[Normalized(g)])
                 => \E e \in EventsOfSlot(m, r, g, pos) : e.score = g.score[pos]

\* a game on the limited machine with one slot at the limit, which is in the
\* table, and one slot above it, which is not
C1_Witness ==
    /\ Flattened
    /\ \E m \in Matches : \E r \in RoundsOf(m) : \E g \in GamesOf(r) :
          /\ Normalized(g) \in DOMAIN current_limits
          /\ \E p1, p2 \in DOMAIN g.score :
                /\ g.score[p1] = current_limits[Normalized(g)]
                /\ g.score[p2] > current_limits[Normalized(g)]
                /\ EventsOfSlot(m, r, g, p1) # {}
                /\ EventsOfSlot(m, r, g, p2) = {}

\* C2: in a match of the primary team an event has is_pick only in rounds 1 and
\* 3 when the primary team is away and only in rounds 2 and 4 when it is home.
C2_PrimaryPickRounds ==
    \A e \in Events :
        (PlaysIn(team_name, MatchOf(e)) /\ e.is_pick)
        => e.round \in LeagueRounds(team_name, MatchOf(e))

\* picked events of a match the primary team plays at home
C2_Witness ==
    /\ Flattened
    /\ \E e \in Events : e.is_pick /\ MatchOf(e).home.name = team_name /\ e.round = 4
    /\ \E e \in Events : ~e.is_pick /\ MatchOf(e).home.name = team_name /\ e.round = 1

\* C3, as claimed: in a game of a round the primary team may pick in, the events
\* of the primary team's players have is_pick and those of the opposing players
\* do not.
C3_FlagFollowsScoringTeam ==
    \A e \in Events :
        (/\ PlaysIn(team_name, MatchOf(e))
         /\ e.round \in LeagueRounds(team_name, MatchOf(e)))
        => (e.is_pick <=> e.team = team_name)

\* C3, amended: in the first game on a machine in a round the primary team may
\* pick in, every event of the game has is_pick, whichever team scored it.
C3_FlagPerGame ==
    \A e \in Events :
        (/\ PlaysIn(team_name, MatchOf(e))
         /\ e.round \in LeagueRounds(team_name, MatchOf(e))
         /\ FirstOnMachine(e))
        => e.is_pick

\* one game of a pick round of the primary team with a flagged event of either team
C3_Witness ==
    /\ Flattened
    /\ \E e1, e2 \in Events :
          /\ e1.match = e2.match /\ e1.round = e2.round /\ e1.game_number = e2.game_number
          /\ e1.round \in LeagueRounds(team_name, MatchOf(e1))
          /\ e1.team = team_name /\ e1.is_pick
          /\ e2.team # team_name /\ e2.is_pick

\* C4, as claimed: in a match of the reference team is_pick_twc is set only in
\* rounds 1 and 3 when the reference team is away and only in rounds 2 and 4
\* when it is home, whether or not the primary team plays in the match.
C4_ReferencePickRounds ==
    \A e \in Events :
        (PlaysIn(twc_team_name, MatchOf(e)) /\ e.is_pick_twc)
        => e.round \in LeagueRounds(twc_team_name, MatchOf(e))

C6_PickFlagsExclusive ==
    \A e \in Events : ~(e.is_pick /\ e.is_pick_twc)

\* a table that holds an event with either flag
C6_Witness ==
    /\ Flattened
    /\ \E e1, e2 \in Events : e1.is_pick /\ e2.is_pick_twc

\* C7: recent_machines is the included list united with the normalized machine
\* of every game that names a machine, belongs to a match at the selected venue
\* in the latest season supplied, and is not on the excluded list.
LatestSeason == Max({SeasonOf(m) : m \in Matches})
C7_RecentMachines ==
    Flattened =>
        LET current == {m \in Matches : m.venue.name = venue_name /\ SeasonOf(m) = LatestSeason}
            games == UNION {GamesOf(r) : r \in UNION {RoundsOf(m) : m \in current}}
            played == {Normalized(g) : g \in games} \ {NoMachine}
        IN  recent_machines =
                included_machines_for_venue
                \cup {mc \in played : mc \notin excluded_machines_for_venue}

\* a latest-season game at the venue adds its machine, a game elsewhere does not
C7_Witness ==
    /\ Flattened
    /\ included_machines_for_venue # {}
    /\ excluded_machines_for_venue # {}
    /\ recent_machines # included_machines_for_venue
    /\ \E m \in Matches : \E r \in RoundsOf(m) : \E g \in GamesOf(r) :
          /\ m.venue.name # venue_name
          /\ Normalized(g) # NoMachine
          /\ Normalized(g) \notin recent_machines \cup excluded_machines_for_venue

\* C8: standardize_machine_name returns the value stored under the lower-cased,
\* trimmed input when that is a key; else a table value equal to it but for
\* letter case when there is one; else the lower-cased, trimmed input.
C8_StandardName ==
    pc = "named" =>
        LET wanted == Lower(Strip(machine_name))
            entries == {machine_mapping[i] : i \in 1..Len(machine_mapping)}
            keyed == {en \in entries : en[1] = wanted}
            valued == {en \in entries : Lower(en[2]) = Lower(wanted)}
        IN  IF keyed # {} THEN \E en \in keyed : standard_name = en[2]
            ELSE IF valued # {} THEN \E en \in valued : standard_name = en[2]
            ELSE standard_name = wanted

\* an input that is no key but names a standard value written in another case
C8_Witness ==
    /\ pc = "named"
    /\ Strip(Lower(machine_name)) \notin DictKeys(machine_mapping)
    /\ machine_name # standard_name
    /\ Lower(standard_name) # standard_name
    /\ \E i \in 1..Len(machine_mapping) : machine_mapping[i][2] = standard_name

\* the qualifying events of the last statistics call: the column's team, roster
\* players, the machine, the season window, and the venue when venue-specific
Qualifying ==
    LET config == stat.column_config[stat.column]
        team == IF stat.column \in {"Times Played", "Times Picked"}
                THEN team_name ELSE twc_team_name
    IN  {e \in Events : /\ e.team = team
                        /\ e.is_roster_player
                        /\ e.machine = stat.machine
                        /\ e.season \in config.seasons[1]..config.seasons[2]
                        /\ config.venue_specific => e.venue = venue_name}
Pairs(S) == {<<e.match, e.round>> : e \in S}

\* C9: with a qualifying event, Times Played and TWC Times Played are the number
\* of distinct (match, round) pairs among the qualifying events.
C9_TimesPlayed ==
    (pc = "stat" /\ stat.column \in {"Times Played", "TWC Times Played"} /\ Qualifying # {})
    => stat.value = ToString(Cardinality(Pairs(Qualifying)))

\* two rounds played, one of them with two qualifying games on the machine
C9_Witness ==
    /\ pc = "stat"
    /\ stat.column = "Times Played"
    /\ stat.value = "2"
    /\ \E e1, e2 \in Qualifying :
          e1.match = e2.match /\ e1.round = e2.round /\ e1.game_number # e2.game_number

\* C10: with a qualifying event, Times Picked and TWC Times Picked are the number
\* of distinct (match, round) pairs holding a qualifying event whose pick flag
\* (is_pick, is_pick_twc) is true.
C10_TimesPicked ==
    (pc = "stat" /\ stat.column \in {"Times Picked", "TWC Times Picked"} /\ Qualifying # {})
    => LET Flag(e) == IF stat.column = "Times Picked" THEN e.is_pick ELSE e.is_pick_twc
       IN  stat.value = ToString(Cardinality(Pairs({e \in Qualifying : Flag(e)})))

\* one round counted as picked, and a pick round of the team that is not counted:
\* its first game on the machine has no qualifying event, its later one no flag
C10_Witness ==
    /\ pc = "stat"
    /\ stat.column = "Times Picked"
    /\ stat.value = "1"
    /\ \E e \in Qualifying : e.is_pick
    /\ \E e \in Qualifying :
          /\ e.round \in LeagueRounds(team_name, MatchOf(e))
          /\ \A o \in Qualifying : (o.match = e.match /\ o.round = e.round) => ~o.is_pick


\* the rows of a table, as a set
RowsOf(df) == {df[i] : i \in 1..Len(df)}

\* C11, as claimed: the four filters are independent and compose by
\* conjunction: the result is exactly the rows kept by the team filter alone,
\* by the season filter alone and by the venue filter alone, and, when
\* roster_only is set, whose is_roster_player is true, also when no team is
\* given.
C11_FiltersCompose ==
    filtered # NoValue =>
        LET Alone(team, seasons, venue) ==
                RowsOf(filter_data(processed_data, team, seasons, venue, FALSE))
            OnRoster == {row \in RowsOf(processed_data) :
                            filtered.roster_only => row.is_roster_player}
        IN  RowsOf(filtered.rows) =
                Alone(filtered.team, NoValue, NoValue)
                \cap Alone(NoValue, filtered.seasons, NoValue)
                \cap Alone(NoValue, NoValue, filtered.venue)
                \cap OnRoster

\* C12, as claimed: a row that passes the other filters and whose venue equals
\* the requested venue up to letter case and surrounding whitespace is kept.
C12_VenueCaseInsensitive ==
    (filtered # NoValue /\ filtered.venue # NoValue) =>
        \A row \in RowsOf(filter_data(processed_data, filtered.team, filtered.seasons,
                                       NoValue, filtered.roster_only)) :
            Lower(Strip(row.venue)) = Lower(Strip(filtered.venue))
            => row \in RowsOf(filtered.rows)


\* the machine a row of the result table is about
MachineOfRow(row) == CHOOSE m \in recent_machines : Title(m) = row["Machine"]

\* the flattened table without the events of other venues, and the flattened
\* table with every event moved to the selected venue
AtSelectedVenue ==
    LET Here(row) == row.venue = venue_name
    IN  SelectSeq(processed_data, Here)
VenueErased ==
    [i \in 1..Len(processed_data) |-> [processed_data[i] EXCEPT !.venue = venue_name]]

\* C13, as claimed: a statistic column with venue_specific = true is computed
\* from the events at the selected venue only, and a column with
\* venue_specific = false from the events of every venue alike, Venue Average
\* included: its value is what the same table gives with the other venues'
\* events removed, respectively with every event counted as one of the venue.
C13_VenueOnlyWhenSpecific ==
    result_df # NoValue =>
        \A i \in 1..Len(result_df) :
            \A c \in (DOMAIN result_df[i]) \ ({"Machine"} \cup PercentColumns) :
                result_df[i][c] =
                    calculate_stat_for_column(
                        IF column_config[c].venue_specific THEN AtSelectedVenue
                        ELSE VenueErased,
                        MachineOfRow(result_df[i]), c, team_name, twc_team_name,
                        venue_name, column_config)

\* the events a configured column of a team draws on for a machine
ColumnEvents(c, t, m) ==
    {e \in Events :
        /\ e.machine = m /\ e.team = t /\ e.is_roster_player
        /\ column_config[c].seasons[1] <= e.season
        /\ e.season <= column_config[c].seasons[2]
        /\ column_config[c].venue_specific => e.venue = venue_name}
\* the events of the venue on a machine
VenueEvents(m) ==
    {e \in Events :
        /\ e.machine = m /\ e.venue = venue_name
        /\ column_config["Venue Average"].seasons[1] <= e.season
        /\ e.season <= column_config["Venue Average"].seasons[2]}

RECURSIVE TotalScore(_)
TotalScore(S) ==
    IF S = {} THEN 0
    ELSE LET e == CHOOSE x \in S : TRUE IN e.score + TotalScore(S \ {e})

\* C14, as claimed: in every row "% of V. Avg." is "N/A" exactly when the
\* primary team has no qualifying event on the machine, or the venue has no
\* event on it, or the venue's average is 0, whichever columns are included.
C14_PercentNotAvailable ==
    result_df # NoValue =>
        \A i \in 1..Len(result_df) :
            LET m == MachineOfRow(result_df[i])
            IN  (result_df[i]["% of V. Avg."] = NA)
                <=> \/ ColumnEvents("Team Average", team_name, m) = {}
                    \/ VenueEvents(m) = {}
                    \/ TotalScore(VenueEvents(m)) = 0

\* the number a percentage text stands for, nan for "N/A"
PercentValue(text) ==
    LET NotPercent(c) == c # "%"
    IN  ParseFloat(SelectSeq(text, NotPercent))

\* C15, as claimed: the rows of the result table are in descending order of the
\* primary team's percentage taken as a number, and no row with "N/A" comes
\* before a row with a number.
C15_SortedByPercentage ==
    result_df # NoValue =>
        \A i, j \in 1..Len(result_df) :
            i < j =>
                LET a == PercentValue(result_df[i]["% of V. Avg."])
                    b == PercentValue(result_df[j]["% of V. Avg."])
                IN  /\ a.nan => b.nan
                    /\ (~a.nan /\ ~b.nan) => a.num * b.den >= b.num * a.den


\* the events at the selected venue in the processed seasons
VenueSeasonEvents ==
    {e \in Events : e.venue = venue_name /\ e.season \in SeasonsToProcess}

\* C16, as claimed: the machines of the advantage table are those observed at
\* the venue in the processed seasons, united with the venue's stored included
\* list, minus its stored excluded list, and no machine of the stored excluded
\* list is selected by the optimizer.
C16_AdvantageMachines ==
    /\ machine_advantage_df # NoValue =>
          {machine_advantage_df[i]["Machine"] : i \in 1..Len(machine_advantage_df)}
          = ({e.machine : e \in VenueSeasonEvents} \cup included_machines_for_venue)
            \ excluded_machines_for_venue
    /\ selection # NoValue =>
          \A i \in 1..Len(selection.selected_machines) :
              selection.selected_machines[i] \notin excluded_machines_for_venue

\* C17, as claimed: the composite score of a machine is 100 when the analyzed
\* team has events on it and the opponent has none, -100 when the opponent has
\* events and the analyzed team has none, and 0 when neither has.
C17_SentinelComposite ==
    machine_advantage_df # NoValue =>
        \A i \in 1..Len(machine_advantage_df) :
            LET row == machine_advantage_df[i]
                twc == {e \in VenueSeasonEvents :
                           e.machine = row["Machine"] /\ e.team = TwcTeamName}
                opponent == {e \in VenueSeasonEvents :
                                e.machine = row["Machine"] /\ e.team = team_name}
            IN  /\ (twc # {} /\ opponent = {}) => row["Composite Score"] = Whole(100)
                /\ (twc = {} /\ opponent # {}) => row["Composite Score"] = Whole(0 - 100)
                /\ (twc = {} /\ opponent = {}) => row["Composite Score"] = Whole(0)

\* C18, as claimed: in Singles format, with fewer available players than
\* machines asked for, the optimizer returns an empty selection and an empty
\* assignment.
C18_SinglesTooFewPlayers ==
    (/\ selection # NoValue
     /\ selection.format_type = Singles
     /\ Cardinality(selection.available_players) < selection.num_machines_to_pick)
    => /\ selection.selected_machines = <<>>
       /\ selection.player_assignments = <<>>

\* a call has the players its format needs for the machines asked for
EnoughPlayers(format_type, available_players, num_machines_to_pick) ==
    IF format_type = Singles
    THEN Cardinality(available_players) >= num_machines_to_pick
    ELSE Cardinality(available_players) >= 2 * num_machines_to_pick

\* C19, as claimed: what the optimizer returns to a call with too few players
\* is returned to no call of the same format that has enough players and
\* recommends nothing.
C19_TooFewIsDistinct ==
    (/\ selection # NoValue
     /\ ~EnoughPlayers(selection.format_type, selection.available_players,
                       selection.num_machines_to_pick))
    => \A available_players \in SUBSET (DOMAIN player_machine_stats),
          num_machines_to_pick \in 1..MaxPicks,
          rows \in 0..Len(machine_advantage_df) :
          EnoughPlayers(selection.format_type, available_players, num_machines_to_pick)
          => \A result \in optimize_machine_selections(player_machine_stats,
                               SubSeq(machine_advantage_df, 1, rows),
                               selection.format_type, available_players,
                               num_machines_to_pick) :
                 result.selected_machines = <<>>
                 => \/ result.selected_machines # selection.selected_machines
                    \/ result.player_assignments # selection.player_assignments

\* C20: in Singles format the optimizer returns k = min(asked for, machines,
\* players) different machines, the assignment has exactly these machines as
\* keys, every machine has one available player and no player has two
\* machines.
C20_SinglesMatching ==
    (selection # NoValue /\ selection.format_type = Singles) =>
        LET picked == selection.selected_machines
            assigned == selection.player_assignments
            k == Min3(selection.num_machines_to_pick, Cardinality(selection.machines),
                      Cardinality(selection.available_players))
        IN  /\ Len(picked) = k
            /\ \A i, j \in 1..Len(picked) : i # j => picked[i] # picked[j]
            /\ \A i \in 1..Len(picked) : picked[i] \in selection.machines
            /\ DOMAIN assigned = {picked[i] : i \in 1..Len(picked)}
            /\ \A m \in DOMAIN assigned :
                  /\ Len(assigned[m]) = 1
                  /\ assigned[m][1] \in selection.available_players
            /\ \A m, n \in DOMAIN assigned : m # n => assigned[m][1] # assigned[n][1]

\* a Singles call that picks two machines out of more players than it needs,
\* and one that is asked for fewer machines than it could fill
C20_Witness ==
    /\ selection # NoValue
    /\ selection.format_type = Singles
    /\ Len(selection.selected_machines) = 2
    /\ Cardinality(selection.available_players) > 2
    /\ selection.num_machines_to_pick = 2


\* C21: in Doubles format the optimizer selects at most as many machines as
\* asked for, no machine twice, the assignment has exactly the selected
\* machines as keys, every machine has two different available players, and no
\* player is in the pairs of two machines.
C21_DoublesFeasible ==
    (selection # NoValue /\ selection.format_type = Doubles) =>
        LET picked == selection.selected_machines
            assigned == selection.player_assignments
        IN  /\ Len(picked) <= selection.num_machines_to_pick
            /\ \A i, j \in 1..Len(picked) : i # j => picked[i] # picked[j]
            /\ \A i \in 1..Len(picked) : picked[i] \in selection.machines
            /\ DOMAIN assigned = {picked[i] : i \in 1..Len(picked)}
            /\ \A m \in DOMAIN assigned :
                  /\ Cardinality(assigned[m]) = 2
                  /\ assigned[m] \subseteq selection.available_players
            /\ \A m, n \in DOMAIN assigned : m # n => assigned[m] \cap assigned[n] = {}

\* a Doubles call that gives two machines a pair each
C21_Witness ==
    /\ selection # NoValue
    /\ selection.format_type = Doubles
    /\ \E m, n \in DOMAIN selection.player_assignments : m # n

\* C22: the score of a pair on a machine is 0.5 * (a + b) + 0.5 * min(a, b) for
\* the two players' scores a and b on the machine, 0 standing for a missing
\* score; 80 and 20 give 60; the pair taken in the other order has the same
\* score.
C22_PairScore ==
    pair_machine_scores # NoValue =>
        LET scores == pair_machine_scores.scores
            machine == pair_machine_scores.machine
            ScoreOf(p) == IF machine \in DOMAIN scores[p] THEN scores[p][machine]
                          ELSE [nan |-> FALSE, num |-> 0, den |-> 1]
            a == ScoreOf(pair_machine_scores.pair[1])
            b == ScoreOf(pair_machine_scores.pair[2])
            least == IF a.num * b.den <= b.num * a.den THEN a ELSE b
            \* (a + b) / 2 + least / 2 over the common denominator
            num == a.num * b.den * least.den + b.num * a.den * least.den
                   + least.num * a.den * b.den
            den == 2 * a.den * b.den * least.den
            value == pair_machine_scores.combined_score
        IN  /\ value.nan = FALSE
            /\ value.num * den = num * value.den
            /\ (a = Whole(80) /\ b = Whole(20)) => value = Whole(60)
            /\ value = pair_machine_score(scores, pair_machine_scores.pair[2],
                                          pair_machine_scores.pair[1], machine)

\* the pair with the scores 80 and 20
C22_Witness ==
    /\ pair_machine_scores # NoValue
    /\ pair_machine_scores.scores[pair_machine_scores.pair[1]] = [m \in {Med} |-> Whole(80)]
    /\ pair_machine_scores.scores[pair_machine_scores.pair[2]] = [m \in {Med} |-> Whole(20)]
    /\ pair_machine_scores.combined_score = Whole(60)

\* C30: in Doubles format, with at least twice as many available players as
\* machines asked for and at least as many available machines, the optimizer
\* returns exactly the number of machines asked for.
C30_DoublesFillsAll ==
    (/\ selection # NoValue
     /\ selection.format_type = Doubles
     /\ Cardinality(selection.available_players) >= 2 * selection.num_machines_to_pick
     /\ Cardinality(selection.machines) >= selection.num_machines_to_pick)
    => Len(selection.selected_machines) = selection.num_machines_to_pick

\* two machines asked for, with four players and two machines available
C30_Witness ==
    /\ selection # NoValue
    /\ selection.format_type = Doubles
    /\ selection.num_machines_to_pick = 2
    /\ Cardinality(selection.available_players) = 4
    /\ Cardinality(selection.machines) = 2
    /\ Len(selection.selected_machines) = 2


\* C23: an event of a game that is not the first of its round on its
\* normalized machine has neither pick flag.
C23_LaterGamesUnflagged ==
    Flattened =>
        \A e \in Events : ~FirstOnMachine(e) => (~e.is_pick /\ ~e.is_pick_twc)

\* a round whose first game on a machine is flagged and whose later game on
\* the same machine, under the same or another raw name, is not
C23_Witness ==
    /\ Flattened
    /\ \E e1, e2 \in Events :
          /\ e1.match = e2.match /\ e1.round = e2.round /\ e1.machine = e2.machine
          /\ e1.game_number < e2.game_number
          /\ e1.is_pick \/ e1.is_pick_twc
          /\ ~e2.is_pick /\ ~e2.is_pick_twc

\* C24, as claimed: every event of the flattened table has a score above 0.
C24_ScoresPositive ==
    Flattened => \A e \in Events : e.score > 0

\* C27, as claimed: recent_machines holds no machine of the excluded list.
C27_RecentNotExcluded ==
    Flattened => recent_machines \cap excluded_machines_for_venue = {}


\* the player keys of a lineup
LineupKeys(lineup) == {lineup[i].key : i \in 1..Len(lineup)}

\* C25: an event's is_roster_player is true exactly when the event's team has
\* an abbreviation in the team-name lookup and the event's player name is in
\* the roster stored under that abbreviation; the event's team is the home team
\* exactly when the slot's player key is in the home lineup, the away team
\* otherwise.
C25_RosterMembership ==
    Flattened =>
        /\ \A e \in Events :
              e.is_roster_player <=>
                  /\ team_roster # NoValue
                  /\ e.team \in DOMAIN team_abbr_dict
                  /\ team_abbr_dict[e.team] # ""
                  /\ team_abbr_dict[e.team] \in DOMAIN team_roster
                  /\ e.player_name \in team_roster[team_abbr_dict[e.team]]
        /\ \A m \in Matches : \A r \in RoundsOf(m) : \A g \in GamesOf(r) :
              \A pos \in DOMAIN g.player : \A e \in EventsOfSlot(m, r, g, pos) :
                  /\ g.player[pos] \in LineupKeys(m.home.lineup) => e.team = m.home.name
                  /\ g.player[pos] \notin LineupKeys(m.home.lineup) => e.team = m.away.name

\* a regular whose name is on another team's roster only, so that he is no
\* roster player of his own team
C25_Witness ==
    /\ Flattened
    /\ \E e \in Events :
          /\ ~e.is_roster_player
          /\ e.team \in DOMAIN team_abbr_dict
          /\ team_abbr_dict[e.team] \in DOMAIN team_roster
          /\ \E a \in DOMAIN team_roster : e.player_name \in team_roster[a]


\* the events of a team on a machine at the selected venue in the processed
\* seasons
TeamEventsOn(team, machine) ==
    {e \in VenueSeasonEvents : e.machine = machine /\ e.team = team}

\* C26, as claimed: on a machine both teams have events on, the composite
\* score is 0.7 * (analyzed pct - opponent pct) + 0.3 * E, E being four times
\* the play-count difference, clamped to -100..100.
C26_WeightedComposite ==
    machine_advantage_df # NoValue =>
        \A i \in 1..Len(machine_advantage_df) :
            LET row == machine_advantage_df[i]
                difference == row["TWC Plays"] - row["Opponent Plays"]
                E == IF 4 * difference > 100 THEN 100
                     ELSE IF 4 * difference < 0 - 100 THEN 0 - 100
                     ELSE 4 * difference
                pct == RSub(row["TWC % of Venue"], row["Opponent % of Venue"])
                \* (7 * pct + 3 * E) / 10 as one fraction
                num == 7 * pct.num + 3 * E * pct.den
                den == 10 * pct.den
            IN  (/\ TeamEventsOn(TwcTeamName, row["Machine"]) # {}
                 /\ TeamEventsOn(team_name, row["Machine"]) # {})
                => row["Composite Score"].num * den = num * row["Composite Score"].den

\* C28, as claimed: every composite score of the advantage table lies between
\* -100 and 100.
C28_CompositeBounded ==
    machine_advantage_df # NoValue =>
        \A i \in 1..Len(machine_advantage_df) :
            LET composite == machine_advantage_df[i]["Composite Score"]
            IN  /\ composite.num <= 100 * composite.den
                /\ composite.num >= (0 - 100) * composite.den

\* C29, as claimed: on a machine where the two teams have as many events, in
\* the same (match, round) pairs, the experience advantage is 0.
C29_PlaysSameUnit ==
    machine_advantage_df # NoValue =>
        \A i \in 1..Len(machine_advantage_df) :
            LET row == machine_advantage_df[i]
                twc == TeamEventsOn(TwcTeamName, row["Machine"])
                opponent == TeamEventsOn(team_name, row["Machine"])
            IN  (/\ Cardinality(twc) = Cardinality(opponent)
                 /\ {group_key(e) : e \in twc} = {group_key(e) : e \in opponent})
                => row["Experience Advantage"] = 0

====
